---------------------------- MODULE Spec2Model ----------------------------
(***************************************************************************)
(* A model of the Slattery proposal generator: configuration               *)
(* normalisation and validation (ValidationUtils), the generation          *)
(* pipeline (ProposalGeneratorService.generateProposal with the front      *)
(* page, template processor, table of contents and PDF merger services)    *)
(* and the POST /generate route that drives it.                            *)
(*                                                                         *)
(* Strings are sequences of tokens in a canonical tokenisation: 'temp_',   *)
(* '.pdf' and '/' are always tokens of their own, every other token is a   *)
(* maximal chunk of characters of one class.  The empty string is << >>.   *)
(***************************************************************************)
EXTENDS Integers, Sequences, FiniteSets, TLC

VARIABLES
  fs,     \* the file system: path (token sequence) -> file content
  db,     \* the relational store: proposals and proposal_versions rows
  call,   \* the invocations of generateProposal: call id -> local state
  req,    \* the request POST /generate handles, or the requests POST /:proposalId/refine handles
  pure    \* the application of a pure function: [fn, in, out, done]

vars == <<fs, db, call, req, pure>>

(***************************************************************************)
(* Bounds of the model.                                                    *)
(***************************************************************************)
MaxTemplates == 2   \* templates in a generated config
MaxPages == 2       \* pages of a template file on disk
MaxWrap == 2        \* wrapper shapes nested around a config

(***************************************************************************)
(* JavaScript values.  Every value is a record tagged with t; objects are  *)
(* sequences of key/value pairs in insertion order.                        *)
(***************************************************************************)
Undef == [t |-> "undefined"]
Null == [t |-> "null"]
Str(s) == [t |-> "string", s |-> s]
Num(n) == [t |-> "number", n |-> n]
Bool(b) == [t |-> "boolean", b |-> b]
Arr(a) == [t |-> "array", a |-> a]
Obj(o) == [t |-> "object", o |-> o]
KV(key, val) == [k |-> key, v |-> val]

\* ToBoolean
Truthy(v) ==
  CASE v.t = "undefined" -> FALSE
    [] v.t = "null" -> FALSE
    [] v.t = "string" -> v.s # << >>
    [] v.t = "number" -> v.n # 0
    [] v.t = "boolean" -> v.b
    [] OTHER -> TRUE

\* the typeof operator
TypeOf(v) == IF v.t \in {"array", "null"} THEN "object" ELSE v.t

IsArray(v) == v.t = "array"

HasKey(v, key) == v.t = "object" /\ \E i \in 1..Len(v.o) : v.o[i].k = key

\* property access v[key] for a string key that is no array index
Get(v, key) ==
  IF HasKey(v, key)
    THEN v.o[CHOOSE i \in 1..Len(v.o) : v.o[i].k = key].v
    ELSE Undef

\* the values for (prop in v) visits, in order
Children(v) ==
  IF v.t = "array" THEN v.a
  ELSE IF v.t = "object" THEN [i \in 1..Len(v.o) |-> v.o[i].v]
  ELSE << >>

IsStr(v, s) == v.t = "string" /\ v.s = s

(***************************************************************************)
(* ValidationUtils.normalizeConfig                                         *)
(***************************************************************************)
RECURSIVE findInObject(_, _), findInProps(_, _, _)

\* the closure findInObject of normalizeConfig
findInObject(obj, key) ==
  IF Truthy(Get(obj, key)) THEN Get(obj, key) ELSE findInProps(obj, key, 1)

\* its for..in loop, from the i-th property on
findInProps(obj, key, i) ==
  IF i > Len(Children(obj)) THEN Null
  ELSE LET child == Children(obj)[i]
           result == IF TypeOf(child) = "object" /\ child.t # "null"
                       THEN findInObject(child, key)
                       ELSE Null
       IN IF Truthy(result) THEN result ELSE findInProps(obj, key, i + 1)

\* the property access on null or undefined that ends normalizeConfig with a
\* TypeError: the value left by the array step is read for its JSON property
normalizeConfigThrows(inputData) ==
  LET c1 == IF IsArray(inputData) /\ Len(inputData.a) > 0
              THEN inputData.a[1] ELSE inputData
  IN c1.t \in {"null", "undefined"}

\* a normalizeConfig without the step for the { config: ... } wrapper
normalizeConfigNoConfigWrapper(inputData) ==
  LET c1 == IF IsArray(inputData) /\ Len(inputData.a) > 0
              THEN inputData.a[1] ELSE inputData
      c2 == IF Truthy(Get(c1, "JSON")) /\ Truthy(Get(Get(c1, "JSON"), "config"))
              THEN Get(Get(c1, "JSON"), "config") ELSE c1
  IN IF ~Truthy(Get(c2, "Company")) /\ ~Truthy(Get(c2, "Templates"))
       THEN LET company == findInObject(inputData, "Company")
                templates == findInObject(inputData, "Templates")
            IN IF Truthy(company) \/ Truthy(templates)
                 THEN Obj(<<KV("Company", company),
                            KV("Templates", IF Truthy(templates) THEN templates
                                                                ELSE Arr(<< >>))>>)
                 ELSE c2
       ELSE c2

normalizeConfig(inputData) ==
  LET c1 == IF IsArray(inputData) /\ Len(inputData.a) > 0
              THEN inputData.a[1] ELSE inputData
      c2 == IF Truthy(Get(c1, "JSON")) /\ Truthy(Get(Get(c1, "JSON"), "config"))
              THEN Get(Get(c1, "JSON"), "config") ELSE c1
      c3 == IF Truthy(Get(c2, "config")) /\ Truthy(Get(Get(c2, "config"), "Company"))
              THEN Get(c2, "config") ELSE c2
  IN IF ~Truthy(Get(c3, "Company")) /\ ~Truthy(Get(c3, "Templates"))
       THEN LET company == findInObject(inputData, "Company")
                templates == findInObject(inputData, "Templates")
            IN IF Truthy(company) \/ Truthy(templates)
                 THEN Obj(<<KV("Company", company),
                            KV("Templates", IF Truthy(templates) THEN templates
                                                                ELSE Arr(<< >>))>>)
                 ELSE c3
       ELSE c3

(***************************************************************************)
(* ValidationUtils.validateProposalConfig.  An error message is a record   *)
(* [e, i, j]: the kind of message, the template index and the staff index  *)
(* it names (0-based as in the messages, -1 when it names none).           *)
(***************************************************************************)
Err(kind, i, j) == [e |-> kind, i |-> i, j |-> j]

RECURSIVE Flatten(_)
Flatten(seqs) == IF seqs = << >> THEN << >> ELSE Head(seqs) \o Flatten(Tail(seqs))

\* the fieldValues check of an editable template
fieldValuesErrors(template, index) ==
  IF Get(template, "editable") = Bool(TRUE)
       /\ Truthy(Get(template, "fieldValues"))
       /\ TypeOf(Get(template, "fieldValues")) # "object"
       /\ ~IsArray(Get(template, "fieldValues"))
    THEN <<Err("fieldValues", index, -1)>>
    ELSE << >>

\* the same check in the copy of the class that has no normalizeConfig
fieldValuesErrorsStrict(template, index) ==
  IF Get(template, "editable") = Bool(TRUE)
       /\ (~Truthy(Get(template, "fieldValues"))
           \/ TypeOf(Get(template, "fieldValues")) # "object")
    THEN <<Err("fieldValues", index, -1)>>
    ELSE << >>

staffErrors(template, index) ==
  IF IsStr(Get(template, "name"), <<"Staff Profiles">>) /\ Truthy(Get(template, "staffs"))
    THEN IF ~IsArray(Get(template, "staffs"))
           THEN <<Err("staffs", index, -1)>>
           ELSE LET staffs == Get(template, "staffs").a
                IN Flatten([j \in 1..Len(staffs) |->
                     IF ~Truthy(Get(staffs[j], "name")) \/ ~Truthy(Get(staffs[j], "fileName"))
                       THEN <<Err("staff", index, j - 1)>> ELSE << >>])
    ELSE << >>

\* the body of the forEach over config.Templates
templateErrors(template, index) ==
  (IF ~Truthy(Get(template, "name")) \/ TypeOf(Get(template, "name")) # "string"
     THEN <<Err("name", index, -1)>> ELSE << >>)
  \o (IF ~Truthy(Get(template, "fileName")) \/ TypeOf(Get(template, "fileName")) # "string"
        THEN <<Err("fileName", index, -1)>> ELSE << >>)
  \o (IF TypeOf(Get(template, "editable")) # "boolean"
        THEN <<Err("editable", index, -1)>> ELSE << >>)
  \o fieldValuesErrors(template, index)
  \o staffErrors(template, index)

validateProposalConfig(config) ==
  (IF ~Truthy(Get(config, "Company")) \/ TypeOf(Get(config, "Company")) # "string"
     THEN <<Err("Company", -1, -1)>> ELSE << >>)
  \o (IF ~Truthy(Get(config, "Templates")) \/ ~IsArray(Get(config, "Templates"))
        THEN <<Err("Templates", -1, -1)>>
        ELSE LET ts == Get(config, "Templates").a
             IN Flatten([i \in 1..Len(ts) |-> templateErrors(ts[i], i - 1)]))

(***************************************************************************)
(* The dispatch of TemplateProcessorService.processTemplates: the guards   *)
(* of its if / else-if chain, in the order of the chain.                   *)
(***************************************************************************)
\* v.length > 0
LengthPositive(v) ==
  IF v.t = "array" THEN Len(v.a) > 0
  ELSE IF v.t = "string" THEN Len(v.s) > 0
  ELSE FALSE

isStaffProfiles(template) ==
  /\ IsStr(Get(template, "name"), <<"Staff Profiles">>)
  /\ Truthy(Get(template, "staffs"))
  /\ LengthPositive(Get(template, "staffs"))

isMemberAssociation(template) ==
  /\ IsStr(Get(template, "name"), <<"Member Association">>)
  /\ Truthy(Get(template, "members"))

isMemberFieldValues(template) ==
  /\ Get(template, "editable") = Bool(TRUE)
  /\ IsStr(Get(template, "name"), <<"Member Association">>)
  /\ IsArray(Get(template, "fieldValues"))

isEditable(template) ==
  /\ Get(template, "editable") = Bool(TRUE)
  /\ (Truthy(Get(template, "fieldValues")) \/ Truthy(Get(template, "hasImages")))

\* the branch the chain takes
Branch(template) ==
  IF isStaffProfiles(template) THEN "staff"
  ELSE IF isMemberAssociation(template) THEN "members"
  ELSE IF isMemberFieldValues(template) THEN "memberFieldValues"
  ELSE IF isEditable(template) THEN "editable"
  ELSE "plain"

(***************************************************************************)
(* Configurations.                                                         *)
(***************************************************************************)
\* an object literal: the pairs whose value is not undefined
MkObj(pairs) == Obj(SelectSeq(pairs, LAMBDA p : p.v.t # "undefined"))

Template(name, fileName, editable, fieldValues, hasImages, imageMapping, members, staffs) ==
  MkObj(<<KV("name", name), KV("fileName", fileName), KV("editable", editable),
          KV("fieldValues", fieldValues), KV("hasImages", hasImages),
          KV("imageMapping", imageMapping), KV("members", members),
          KV("staffs", staffs)>>)

Staff(name, fileName) == MkObj(<<KV("name", name), KV("fileName", fileName)>>)

Config(company, templates) ==
  MkObj(<<KV("Company", company), KV("Templates", templates)>>)

Pdf(stem) == <<stem, ".pdf">>

\* sequences over S of length at most n
SeqsUpTo(S, n) == UNION {[1..k -> S] : k \in 0..n}

(***************************************************************************)
(* The inputs validateProposalConfig is applied to: every config with one  *)
(* template drawn field by field, and the configs without a template list. *)
(***************************************************************************)
ValCompanies == {Str(<<"Acme">>), Str(<< >>), Undef, Num(5)}
ValNames == {Str(<<"Intro">>), Str(<<"Staff Profiles">>), Str(<<"Member Association">>), Undef}
ValFileNames == {Str(Pdf("A")), Undef}
ValEditables == {Bool(TRUE), Bool(FALSE), Undef}
ValFieldValues ==
  {Undef, Obj(<<KV("CompanyName", Str(<<"Acme">>))>>), Arr(<<Str(<<"Alice">>)>>),
   Str(<<"abc">>), Num(0)}
ValImages ==
  {<<Undef, Undef>>,
   <<Bool(TRUE), Obj(<<KV("Image1_af_image", Str(<<"Alice", ".jpg">>))>>)>>}
ValMembers == {Undef, Arr(<<Str(<<"Alice">>)>>)}
ValStaffs ==
  {Undef, Arr(<< >>), Arr(<<Staff(Str(<<"Bob">>), Str(Pdf("S")))>>),
   Arr(<<Staff(Str(<<"Bob">>), Undef)>>), Obj(<< >>)}

ValTemplates ==
  {Template(n, f, e, fv, im[1], im[2], m, s) :
     n \in ValNames, f \in ValFileNames, e \in ValEditables, fv \in ValFieldValues,
     im \in ValImages, m \in ValMembers, s \in ValStaffs}

ValidateInputs ==
  {Config(c, ts) : c \in ValCompanies,
                   ts \in {Undef, Obj(<< >>), Arr(<< >>)} \cup {Arr(<<t>>) : t \in ValTemplates}}

(***************************************************************************)
(* Idle values of the parts of the state a specification does not use.     *)
(***************************************************************************)
NoFiles == << >>
NoRows == [proposals |-> << >>, versions |-> << >>]
NoCalls == << >>
NoRequest == [pc |-> "none"]
NoPure == [fn |-> "none", done |-> FALSE]

(***************************************************************************)
(* validateProposalConfig applied to one input.                            *)
(***************************************************************************)
InitValidate ==
  /\ pure \in {[fn |-> "validateProposalConfig", in |-> c, out |-> << >>, done |-> FALSE] :
                 c \in ValidateInputs}
  /\ fs = NoFiles /\ db = NoRows /\ call = NoCalls /\ req = NoRequest

ApplyValidate ==
  /\ pure.fn = "validateProposalConfig" /\ ~pure.done
  /\ pure' = [pure EXCEPT !.out = validateProposalConfig(pure.in), !.done = TRUE]
  /\ UNCHANGED <<fs, db, call, req>>

NextValidate == ApplyValidate

SpecValidate == InitValidate /\ [][NextValidate]_vars

\* the template list of the validated input, << >> when it has none
ValidatedTemplates ==
  IF IsArray(Get(pure.in, "Templates")) THEN Get(pure.in, "Templates").a ELSE << >>

Validated == pure.fn = "validateProposalConfig" /\ pure.done

\* C7: validateProposalConfig returns at least one error for a config whose
\* Templates is an empty sequence, and for an empty or non-string Company.
C7_EmptyTemplatesRejected ==
  Validated =>
    /\ (Get(pure.in, "Templates") = Arr(<< >>) => pure.out # << >>)
    /\ (~(Get(pure.in, "Company").t = "string" /\ Get(pure.in, "Company").s # << >>)
          => pure.out # << >>)

\* the guards of the dispatch that hold of a template, the two routes to the
\* editable processing counted as one
MatchedVariants(template) ==
  {v \in {"staff", "members", "editable"} :
     \/ v = "staff" /\ isStaffProfiles(template)
     \/ v = "members" /\ isMemberAssociation(template)
     \/ v = "editable" /\ (isMemberFieldValues(template) \/ isEditable(template))}

\* C8: a template that matches more than one variant is rejected by
\* validation, so every accepted template matches at most one guard of the
\* dispatch and its branch does not depend on the order of the chain.
C8_AmbiguousRejected ==
  Validated /\ pure.out = << >> =>
    \A i \in 1..Len(ValidatedTemplates) :
      Cardinality(MatchedVariants(ValidatedTemplates[i])) <= 1

\* C9: an error is reported for every editable=true template whose
\* fieldValues is absent or is neither a mapping nor a sequence, and no
\* fieldValues error is reported for a template with editable=false.
C9_FieldValuesChecked ==
  Validated =>
    \A i \in 1..Len(ValidatedTemplates) :
      LET t == ValidatedTemplates[i]
          fv == Get(t, "fieldValues")
          reported == \E k \in 1..Len(pure.out) :
                        pure.out[k] = Err("fieldValues", i - 1, -1)
      IN /\ (Get(t, "editable") = Bool(TRUE) /\ fv.t \notin {"object", "array"} => reported)
         /\ (Get(t, "editable") = Bool(FALSE) => ~reported)

(***************************************************************************)
(* Files.  A path is a token sequence, a file is [k |-> "pdf", pages],     *)
(* [k |-> "bad"] (bytes PDFDocument.load rejects) or [k |-> "img"]; a path *)
(* outside DOMAIN fs does not exist.  A page records where it comes from   *)
(* (file, n), what filled its form (fill), the position in the merge's     *)
(* input list of the document that contributed it (inp, 0 outside a merged *)
(* document), the 'Page N of M' labels drawn on it and, for a table of     *)
(* contents page, the entries drawn.                                       *)
(***************************************************************************)
TemplatesDir == <<"Templates">>
OutputDir == <<"Output">>

RECURSIVE Segments(_)
\* the segments of a path, split at "/"
Segments(p) ==
  IF \A i \in 1..Len(p) : p[i] # "/" THEN <<p>>
  ELSE LET cut == CHOOSE i \in 1..Len(p) : p[i] = "/" /\ \A j \in 1..(i - 1) : p[j] # "/"
       IN <<SubSeq(p, 1, cut - 1)>> \o Segments(SubSeq(p, cut + 1, Len(p)))

RECURSIVE Resolve(_, _)
\* path.normalize on segments: '.' and empty segments go, '..' removes the
\* segment before it
Resolve(done, segments) ==
  IF segments = << >> THEN done
  ELSE LET seg == Head(segments)
       IN Resolve(IF seg = << >> \/ seg = <<".">> THEN done
                  ELSE IF seg = <<"..">> /\ done # << >> /\ done[Len(done)] # <<"..">>
                    THEN SubSeq(done, 1, Len(done) - 1)
                  ELSE Append(done, seg),
                  Tail(segments))

RECURSIVE Joined(_)
Joined(segments) ==
  IF segments = << >> THEN << >>
  ELSE IF Len(segments) = 1 THEN segments[1]
  ELSE segments[1] \o <<"/">> \o Joined(Tail(segments))

\* path.join of a directory and a file name: the two joined with a
\* separator, then normalized
pathJoin(dir, name) == Joined(Resolve(<< >>, Segments(dir \o <<"/">> \o name)))

RECURSIVE LastSlash(_)
LastSlash(p) ==
  IF p = << >> THEN 0 ELSE IF p[Len(p)] = "/" THEN Len(p) ELSE LastSlash(SubSeq(p, 1, Len(p) - 1))

\* path.basename
basename(p) == SubSeq(p, LastSlash(p) + 1, Len(p))

\* String.prototype.includes, for a needle that is one token
includes(s, token) == \E i \in 1..Len(s) : s[i] = token

NoFill == [kind |-> "none", by |-> 0, sec |-> 0, imgs |-> << >>]

Page(file, n, fill) ==
  [file |-> file, n |-> n, fill |-> fill, inp |-> 0, labels |-> << >>, toc |-> << >>]

PdfFile(pages) == [k |-> "pdf", pages |-> pages]
BadFile == [k |-> "bad"]
ImgFile == [k |-> "img"]

\* a template of the repository's Templates directory with p pages
TemplateFile(path, p) == PdfFile([n \in 1..p |-> Page(path, n, NoFill)])

existsSync(files, path) == path \in DOMAIN files

\* PDFDocument.load(fs.readFileSync(path)) succeeds
Loads(files, path) == existsSync(files, path) /\ files[path].k = "pdf"

writeFileSync(files, path, content) == (path :> content) @@ files

\* path.dirname
dirname(p) == SubSeq(p, 1, LastSlash(p) - 1)

\* the directories there are: the one that holds the service's two, << >>,
\* the two of the service, the output one made by ensureDirectoryExists, and
\* the image directory of the templates
Directories ==
  {<< >>, TemplatesDir, OutputDir, pathJoin(TemplatesDir, <<"Member Association">>)}

\* fs.writeFileSync throws ENOENT for a path in a directory that is not there
WriteThrows(path) == dirname(path) \notin Directories

unlinkSync(files, path) == [q \in DOMAIN files \ {path} |-> files[q]]

\* TemplateProcessorService.getPageCount
getPageCount(files, pdfPath) ==
  IF Loads(files, pdfPath) THEN Len(files[pdfPath].pages) ELSE 1

(***************************************************************************)
(* FrontPageService                                                        *)
(***************************************************************************)
Fill(kind, c, sec, imgs) == [kind |-> kind, by |-> c, sec |-> sec, imgs |-> imgs]

\* the pages of a loaded document after its form was filled and flattened
FilledPages(pages, fill) == [n \in 1..Len(pages) |-> [pages[n] EXCEPT !.fill = fill]]

createBasicFrontPage(files, c, outputPath) ==
  [path |-> outputPath,
   files |-> writeFileSync(files, outputPath,
               PdfFile(<<Page(<<"basic front page">>, 1, Fill("front", c, 0, << >>))>>))]

\* a front page written under a name of its own for every call
generateFrontPagePerCall(files, c) ==
  LET frontPagePath == pathJoin(OutputDir, <<"temp_", "frontpage", ToString(c), ".pdf">>)
  IN [path |-> frontPagePath,
      files |-> writeFileSync(files, frontPagePath,
                  PdfFile(<<Page(<<"basic front page">>, 1, Fill("front", c, 0, << >>))>>))]

\* returns the path of the front page and the file system it leaves
generateFrontPage(files, c) ==
  LET companyTemplatePath == pathJoin(TemplatesDir, <<"Template Company", ".pdf">>)
      frontPagePath == pathJoin(OutputDir, <<"temp_", "frontpage", ".pdf">>)
  IN IF ~existsSync(files, companyTemplatePath)
       THEN createBasicFrontPage(files, c, frontPagePath)
     ELSE IF Loads(files, companyTemplatePath)
       THEN [path |-> frontPagePath,
             files |-> writeFileSync(files, frontPagePath,
                         PdfFile(FilledPages(files[companyTemplatePath].pages,
                                             Fill("front", c, 0, << >>))))]
     ELSE createBasicFrontPage(files, c, frontPagePath)

(***************************************************************************)
(* ImageProcessorService.processTemplateWithImages and                     *)
(* TemplateProcessorService: the processing of one section of call c, sec  *)
(* being the position of the section in config.Templates.  The null path   *)
(* is << >>.                                                               *)
(***************************************************************************)
\* the field names of the mapping whose image exists, in mapping order
InsertedImages(files, imageMapping) ==
  LET inserted == SelectSeq(imageMapping.o,
                    LAMBDA p : Truthy(p.v) /\ p.v.t = "string" /\ existsSync(files, p.v.s))
  IN [i \in 1..Len(inserted) |-> inserted[i].k]

\* [threw, path, files]: throws when the template cannot be loaded
processTemplateWithImages(files, templatePath, imageMapping, outputPath, c, sec) ==
  IF ~Loads(files, templatePath)
    THEN [threw |-> TRUE, path |-> << >>, files |-> files]
    ELSE [threw |-> FALSE, path |-> outputPath,
          files |-> writeFileSync(files, outputPath,
                      PdfFile(FilledPages(files[templatePath].pages,
                                Fill("images", c, sec,
                                     InsertedImages(files, imageMapping)))))]

\* the field names of fieldValues, in Object.entries order
FieldNames(fieldValues) ==
  IF fieldValues.t = "object" THEN [i \in 1..Len(fieldValues.o) |-> fieldValues.o[i].k]
  ELSE << >>

\* [path, files]
processEditableTemplate(files, template, c, sec) ==
  LET fileName == Get(template, "fileName").s
      templatePath == pathJoin(TemplatesDir, fileName)
      outputPath == pathJoin(OutputDir, <<"temp_">> \o fileName)
  IN IF ~existsSync(files, templatePath)
       THEN [path |-> << >>, files |-> files]
     ELSE IF Truthy(Get(template, "hasImages")) /\ Truthy(Get(template, "imageMapping"))
       THEN LET r == processTemplateWithImages(files, templatePath,
                       Get(template, "imageMapping"), outputPath, c, sec)
            IN IF r.threw THEN [path |-> templatePath, files |-> files]
                          ELSE [path |-> r.path, files |-> r.files]
     ELSE IF ~Loads(files, templatePath)
       THEN [path |-> templatePath, files |-> files]
     ELSE [path |-> outputPath,
           files |-> writeFileSync(files, outputPath,
                       PdfFile(FilledPages(files[templatePath].pages,
                                 Fill("text", c, sec,
                                      FieldNames(Get(template, "fieldValues"))))))]

MaxMemberImages == 7
possibleExtensions == <<".jpg", ".jpeg", ".png">>

\* the image found for a member name, << >> when none of the extensions exists
MemberImage(files, memberName) ==
  LET imagesDir == pathJoin(TemplatesDir, <<"Member Association">>)
      found == SelectSeq(possibleExtensions,
                 LAMBDA ext : existsSync(files, pathJoin(imagesDir, memberName \o <<ext>>)))
  IN IF found = << >> THEN << >> ELSE pathJoin(imagesDir, memberName \o <<Head(found)>>)

\* a mapping that numbers the fields by the members that have an image
MemberImageMappingShifted(files, members) ==
  LET n == IF Len(members) < MaxMemberImages THEN Len(members) ELSE MaxMemberImages
      found == SelectSeq([i \in 1..n |-> MemberImage(files, members[i].s)],
                         LAMBDA path : path # << >>)
  IN [i \in 1..Len(found) |-> KV("Image" \o ToString(i) \o "_af_image", Str(found[i]))]

\* the imageMapping built from the members array
MemberImageMapping(files, members) ==
  LET n == IF Len(members) < MaxMemberImages THEN Len(members) ELSE MaxMemberImages
      all == [i \in 1..n |->
                KV("Image" \o ToString(i) \o "_af_image",
                   Str(MemberImage(files, members[i].s)))]
  IN SelectSeq(all, LAMBDA p : p.v.s # << >>)

\* [path, files]
processMemberAssociationTemplate(files, template, c, sec) ==
  LET templatePath == pathJoin(TemplatesDir, Get(template, "fileName").s)
      members == IF IsArray(Get(template, "members")) THEN Get(template, "members").a
                                                     ELSE << >>
      imageMapping == MemberImageMapping(files, members)
      modifiedTemplate ==
        Template(Get(template, "name"), Get(template, "fileName"), Bool(TRUE),
                 Obj(<< >>), Bool(TRUE), Obj(imageMapping), Undef, Undef)
      r == processEditableTemplate(files, modifiedTemplate, c, sec)
  IN IF ~existsSync(files, templatePath) THEN [path |-> << >>, files |-> files]
     ELSE IF imageMapping = << >> THEN [path |-> templatePath, files |-> files]
     ELSE IF r.path # << >> THEN r
     ELSE [path |-> templatePath, files |-> r.files]

\* path.join throws a TypeError for an argument that is no string
JoinThrows(name) == name.t # "string"

RECURSIVE SumSeq(_)
SumSeq(s) == IF s = << >> THEN 0 ELSE Head(s) + SumSeq(Tail(s))

\* a processStaffProfiles that leaves the pages of the intro file uncounted
processStaffProfilesIntroUncounted(files, template) ==
  LET mainStaffPath == pathJoin(TemplatesDir, Get(template, "fileName").s)
      staffs == Get(template, "staffs").a
      main == IF existsSync(files, mainStaffPath) THEN <<mainStaffPath>> ELSE << >>
      names == [j \in 1..Len(staffs) |-> Get(staffs[j], "fileName")]
      staffPaths == [j \in 1..Len(staffs) |-> pathJoin(TemplatesDir, names[j].s)]
      found == SelectSeq(staffPaths, LAMBDA p : existsSync(files, p))
  IN IF \E j \in 1..Len(staffs) : JoinThrows(names[j])
       THEN [threw |-> TRUE, paths |-> << >>, totalPages |-> 0]
       ELSE [threw |-> FALSE, paths |-> main \o found,
             totalPages |-> SumSeq([i \in 1..Len(found) |-> getPageCount(files, found[i])])]

\* [threw, paths, totalPages]
processStaffProfiles(files, template) ==
  LET mainStaffPath == pathJoin(TemplatesDir, Get(template, "fileName").s)
      staffs == Get(template, "staffs").a
      main == IF existsSync(files, mainStaffPath) THEN <<mainStaffPath>> ELSE << >>
      names == [j \in 1..Len(staffs) |-> Get(staffs[j], "fileName")]
      staffPaths == [j \in 1..Len(staffs) |-> pathJoin(TemplatesDir, names[j].s)]
      found == SelectSeq(staffPaths, LAMBDA p : existsSync(files, p))
      paths == main \o found
  IN IF \E j \in 1..Len(staffs) : JoinThrows(names[j])
       THEN [threw |-> TRUE, paths |-> << >>, totalPages |-> 0]
       ELSE [threw |-> FALSE, paths |-> paths,
             totalPages |-> SumSeq([i \in 1..Len(paths) |-> getPageCount(files, paths[i])])]

(***************************************************************************)
(* One iteration of the loop of processTemplates: the paths and the table  *)
(* of contents entries the section adds, the advance of pageCounter and    *)
(* the file system it leaves.  An exception inside the try block leaves    *)
(* nothing but the files already written.                                  *)
(***************************************************************************)
TocEntry(title, page) == [title |-> title, page |-> page]

SectionResult(files, paths, toc, advance) ==
  [files |-> files, paths |-> paths, toc |-> toc, advance |-> advance]

\* the common tail of the three branches that produce one processed path
OnePath(r, template, pageCounter) ==
  IF r.path # << >>
    THEN SectionResult(r.files, <<r.path>>,
                       <<TocEntry(Get(template, "name").s, pageCounter)>>,
                       getPageCount(r.files, r.path))
    ELSE SectionResult(r.files, << >>, << >>, 0)

\* a Staff Profiles block that lists every staff file in the table of contents
StaffSectionEntryPerFile(files, template, pageCounter) ==
  LET staffResults == processStaffProfiles(files, template)
  IN IF staffResults.threw
       THEN SectionResult(files, << >>, << >>, 0)
       ELSE SectionResult(files, staffResults.paths,
                          [i \in 1..Len(staffResults.paths) |->
                             TocEntry(<<"Staff Profiles">>, pageCounter)],
                          staffResults.totalPages)

StaffSection(files, template, pageCounter) ==
  LET staffResults == processStaffProfiles(files, template)
  IN IF staffResults.threw
       THEN SectionResult(files, << >>, << >>, 0)
       ELSE SectionResult(files, staffResults.paths,
                          <<TocEntry(<<"Staff Profiles">>, pageCounter)>>,
                          staffResults.totalPages)

PlainSection(files, template, pageCounter) ==
  LET templatePath == pathJoin(TemplatesDir, Get(template, "fileName").s)
  IN IF existsSync(files, templatePath)
       THEN SectionResult(files, <<templatePath>>,
                          <<TocEntry(Get(template, "name").s, pageCounter)>>,
                          getPageCount(files, templatePath))
       ELSE SectionResult(files, << >>, << >>, 0)

processSection(files, template, pageCounter, c, sec) ==
  CASE Branch(template) = "staff" -> StaffSection(files, template, pageCounter)
    [] Branch(template) = "members" ->
         OnePath(processMemberAssociationTemplate(files, template, c, sec),
                 template, pageCounter)
    [] Branch(template) = "memberFieldValues" ->
         LET convertedTemplate ==
               Template(Get(template, "name"), Get(template, "fileName"), Bool(FALSE),
                        Undef, Undef, Undef, Get(template, "fieldValues"), Undef)
         IN OnePath(processMemberAssociationTemplate(files, convertedTemplate, c, sec),
                    template, pageCounter)
    [] Branch(template) = "editable" ->
         OnePath(processEditableTemplate(files, template, c, sec), template, pageCounter)
    [] OTHER -> PlainSection(files, template, pageCounter)

(***************************************************************************)
(* generateTOCProgrammatically: one page holding the entries drawn.        *)
(***************************************************************************)
\* lengths in hundredths of a PDF unit
PageHeight == 84189
HeaderDrop == 10000     \* headerY = height - 100
ContentDrop == 10000    \* contentStartY = headerY - 100
ColumnFloor == 10000    \* currentY < 100
LineStep == 1600

ContentStartY == PageHeight - HeaderDrop - ContentDrop

\* the loop variables before the first iteration; i is the 1-based index
TocStart ==
  [i |-> 1, leftY |-> ContentStartY, rightY |-> ContentStartY, useLeftColumn |-> TRUE,
   drawn |-> << >>, stopped |-> FALSE, below |-> FALSE]

\* an iteration that stays in the column it drew in
TocStepSameColumn(st, tocData) ==
  LET currentY == IF st.useLeftColumn THEN st.leftY ELSE st.rightY
  IN IF currentY < ColumnFloor
       THEN IF st.useLeftColumn
              THEN [st EXCEPT !.useLeftColumn = FALSE, !.i = @ + 1, !.below = TRUE]
              ELSE [st EXCEPT !.stopped = TRUE, !.below = TRUE]
       ELSE [st EXCEPT
               !.drawn = Append(@, [entry |-> tocData[st.i],
                                    column |-> IF st.useLeftColumn THEN "left" ELSE "right",
                                    y |-> currentY]),
               !.leftY = IF st.useLeftColumn THEN @ - LineStep ELSE @,
               !.rightY = IF st.useLeftColumn THEN @ ELSE @ - LineStep,
               !.i = @ + 1]

\* one iteration of the loop over tocData; below is history: the column in
\* turn was found below the floor
TocStep(st, tocData) ==
  LET currentY == IF st.useLeftColumn THEN st.leftY ELSE st.rightY
  IN IF currentY < ColumnFloor
       THEN IF st.useLeftColumn
              THEN [st EXCEPT !.useLeftColumn = FALSE, !.i = @ + 1, !.below = TRUE]
              ELSE [st EXCEPT !.stopped = TRUE, !.below = TRUE]
       ELSE [st EXCEPT
               !.drawn = Append(@, [entry |-> tocData[st.i],
                                    column |-> IF st.useLeftColumn THEN "left" ELSE "right",
                                    y |-> currentY]),
               !.leftY = IF st.useLeftColumn THEN @ - LineStep ELSE @,
               !.rightY = IF st.useLeftColumn THEN @ ELSE @ - LineStep,
               !.useLeftColumn = ~@,
               !.i = @ + 1]

TocEnded(st, tocData) == st.stopped \/ st.i > Len(tocData)

RECURSIVE TocRun(_, _)
TocRun(st, tocData) ==
  IF TocEnded(st, tocData) THEN st ELSE TocRun(TocStep(st, tocData), tocData)

\* the entries drawn on the page
DrawnEntries(tocData) ==
  LET drawn == TocRun(TocStart, tocData).drawn
  IN [k \in 1..Len(drawn) |-> drawn[k].entry]

generateTOCProgrammatically(files, outputPath, tocData, c) ==
  writeFileSync(files, outputPath,
    PdfFile(<<[Page(<<"table of contents">>, 1, Fill("toc", c, 0, << >>))
                 EXCEPT !.toc = DrawnEntries(tocData)]>>))

(***************************************************************************)
(* PDFMergerService                                                        *)
(***************************************************************************)
\* a copy that appends the pages of an input last page first
CopiedPagesReversed(files, pdfPaths, j) ==
  IF Loads(files, pdfPaths[j])
    THEN LET pages == files[pdfPaths[j]].pages
         IN [n \in 1..Len(pages) |->
               [pages[Len(pages) + 1 - n] EXCEPT !.inp = j, !.labels = << >>]]
    ELSE << >>

\* the pages the input at position j of pdfPaths adds to the merged document:
\* none when the file is missing or cannot be loaded
CopiedPages(files, pdfPaths, j) ==
  IF Loads(files, pdfPaths[j])
    THEN LET pages == files[pdfPaths[j]].pages
         IN [n \in 1..Len(pages) |-> [pages[n] EXCEPT !.inp = j, !.labels = << >>]]
    ELSE << >>

Label(num, of) == [num |-> num, of |-> of]

\* the pages of pdfDoc after the numbering pass; i is the 0-based page index
addPageNumbers(allPages, totalPages) ==
  LET contentPageCount == totalPages - 2
  IN [k \in 1..Len(allPages) |->
        LET i == k - 1
        IN IF i = 0 \/ i = 1
             THEN allPages[k]
             ELSE [allPages[k] EXCEPT
                     !.labels = Append(@, Label(i - 1, contentPageCount))]]

\* a merge that gives up at the first input it cannot load
MergedPagesStopsAtBadInput(files, pdfPaths) ==
  LET bad == {j \in 1..Len(pdfPaths) : ~Loads(files, pdfPaths[j])}
      last == IF bad = {} THEN Len(pdfPaths)
              ELSE (CHOOSE j \in bad : \A k \in bad : j <= k) - 1
      copied == Flatten([j \in 1..last |-> CopiedPages(files, pdfPaths, j)])
  IN addPageNumbers(copied, Len(copied))

\* the pages of the merged document
MergedPages(files, pdfPaths) ==
  LET copied == Flatten([j \in 1..Len(pdfPaths) |-> CopiedPages(files, pdfPaths, j)])
      totalPages == Len(copied)
  IN addPageNumbers(copied, totalPages)

\* the file system after the merge wrote its output
mergeFinalProposal(files, pdfPaths, outputPath) ==
  writeFileSync(files, outputPath, PdfFile(MergedPages(files, pdfPaths)))

RECURSIVE cleanupTempFiles(_, _)
cleanupTempFiles(files, tempPaths) ==
  IF tempPaths = << >> THEN files
  ELSE LET tempPath == Head(tempPaths)
       IN cleanupTempFiles(
            IF existsSync(files, tempPath) /\ includes(tempPath, "temp_")
              THEN unlinkSync(files, tempPath) ELSE files,
            Tail(tempPaths))

(***************************************************************************)
(* ProposalDatabaseService                                                 *)
(***************************************************************************)
SpaceTokens == {" "}
PunctTokens == {"&", ",", "."}

\* companyName.replace(/[^a-zA-Z0-9\s]/g, '').replace(/\s+/g, '_')
RECURSIVE SpacesToUnderscore(_)
SpacesToUnderscore(s) ==
  IF s = << >> THEN << >>
  ELSE IF Head(s) \in SpaceTokens
    THEN IF Len(s) > 1 /\ s[2] \in SpaceTokens
           THEN SpacesToUnderscore(Tail(s))
           ELSE <<"_">> \o SpacesToUnderscore(Tail(s))
  ELSE <<Head(s)>> \o SpacesToUnderscore(Tail(s))

sanitizedCompany(companyName) ==
  SpacesToUnderscore(SelectSeq(companyName, LAMBDA tok : tok \notin PunctTokens))

\* createdAt is the token HHMMSS of the second of the call
generateVersionedFilename(companyName, versionNumber, createdAt) ==
  <<"Proposal__">> \o sanitizedCompany(companyName)
    \o <<"_v", ToString(versionNumber), "_", createdAt, ".pdf">>

NoDbResult == [created |-> FALSE, proposalId |-> 0, versionId |-> 0, versionNumber |-> 0]

\* the rows after createProposal inserted its row
createProposal(rows, title) ==
  [rows EXCEPT !.proposals = Append(@, [id |-> Len(@) + 1, title |-> title])]

\* the rows after createProposalVersion inserted its row; a null path is << >>
createProposalVersion(rows, proposalId, versionNumber, documentPath, proposalData) ==
  [rows EXCEPT !.versions =
     Append(@, [id |-> Len(@) + 1, proposal_id |-> proposalId,
                version_number |-> versionNumber,
                version_label |-> "v" \o ToString(versionNumber),
                document_path |-> documentPath, status |-> "submitted",
                proposal_data |-> proposalData])]

\* [threw, rows, dbResult] for the outcome of the two inserts
createProposalWithVersion(rows, config, documentPath, outcome) ==
  LET withProposal == createProposal(rows, Get(config, "Company").s)
      proposalId == Len(withProposal.proposals)
      withVersion == createProposalVersion(withProposal, proposalId, 1, documentPath, config)
  IN CASE outcome = "proposalError" ->
            [threw |-> TRUE, rows |-> rows, dbResult |-> NoDbResult]
       [] outcome = "versionError" ->
            [threw |-> TRUE, rows |-> withProposal, dbResult |-> NoDbResult]
       [] OTHER ->
            [threw |-> FALSE, rows |-> withVersion,
             dbResult |-> [created |-> TRUE, proposalId |-> proposalId,
                           versionId |-> Len(withVersion.versions), versionNumber |-> 1]]

DbOutcomes == {"ok", "proposalError", "versionError"}
Times == {"120000", "120001"}

(***************************************************************************)
(* ProposalGeneratorService.generateProposal, one action per step of call  *)
(* c.  pathSec and tocSec are history: the section that produced each      *)
(* processed path and each table of contents entry.                        *)
(***************************************************************************)
NoError == [kind |-> "none", errors |-> << >>]
NoResult == [success |-> FALSE]

InitCall(config, outputFileName) ==
  [pc |-> "validate", config |-> config, outputFileName |-> outputFileName,
   finalOutputPath |-> << >>, dbResult |-> NoDbResult, frontPagePath |-> << >>,
   idx |-> 0, processedTemplates |-> << >>, pathSec |-> << >>,
   tocData |-> << >>, tocSec |-> << >>, pageCounter |-> 0, tocPath |-> << >>,
   result |-> NoResult, error |-> NoError]

Templates(c) == Get(call[c].config, "Templates").a

\* a validation step that reports the first violation only
ValidateFirstErrorOnly(c) ==
  /\ call[c].pc = "validate"
  /\ LET validationErrors == validateProposalConfig(call[c].config)
     IN call' = [call EXCEPT ![c] =
          IF Len(validationErrors) > 0
            THEN [@ EXCEPT !.pc = "failed",
                           !.error = [kind |-> "validation",
                                      errors |-> <<validationErrors[1]>>]]
            ELSE [@ EXCEPT !.pc = "output"]]
  /\ UNCHANGED <<fs, db, req, pure>>

Validate(c) ==
  /\ call[c].pc = "validate"
  /\ LET validationErrors == validateProposalConfig(call[c].config)
     IN call' = [call EXCEPT ![c] =
          IF Len(validationErrors) > 0
            THEN [@ EXCEPT !.pc = "failed",
                           !.error = [kind |-> "validation", errors |-> validationErrors]]
            ELSE [@ EXCEPT !.pc = "output"]]
  /\ UNCHANGED <<fs, db, req, pure>>

\* an output step that inserts the two rows whether or not a file name is given
DetermineOutputAlwaysInserts(c) ==
  /\ call[c].pc = "output"
  /\ \E outcome \in DbOutcomes, now \in Times :
       LET r == createProposalWithVersion(db, call[c].config, << >>, outcome)
       IN /\ db' = r.rows
          /\ call' = [call EXCEPT ![c] =
               IF r.threw
                 THEN [@ EXCEPT !.pc = "failed",
                                !.error = [kind |-> "database", errors |-> << >>]]
                 ELSE [@ EXCEPT !.pc = "front", !.dbResult = r.dbResult,
                                !.finalOutputPath =
                                  IF Truthy(call[c].outputFileName)
                                       /\ ~JoinThrows(call[c].outputFileName)
                                    THEN pathJoin(OutputDir, call[c].outputFileName.s)
                                    ELSE pathJoin(OutputDir,
                                           generateVersionedFilename(
                                             Get(call[c].config, "Company").s,
                                             r.dbResult.versionNumber, now))]]
  /\ UNCHANGED <<fs, req, pure>>

DetermineOutput(c) ==
  /\ call[c].pc = "output"
  /\ \E outcome \in DbOutcomes, now \in Times :
       IF Truthy(call[c].outputFileName) /\ JoinThrows(call[c].outputFileName)
         THEN /\ call' = [call EXCEPT ![c] =
                   [@ EXCEPT !.pc = "failed", !.error = [kind |-> "path", errors |-> << >>]]]
              /\ db' = db
       ELSE IF Truthy(call[c].outputFileName)
         THEN /\ call' = [call EXCEPT ![c] =
                   [@ EXCEPT !.pc = "front",
                             !.finalOutputPath = pathJoin(OutputDir, call[c].outputFileName.s)]]
              /\ db' = db
         ELSE LET r == createProposalWithVersion(db, call[c].config, << >>, outcome)
              IN /\ db' = r.rows
                 /\ call' = [call EXCEPT ![c] =
                      IF r.threw
                        THEN [@ EXCEPT !.pc = "failed",
                                       !.error = [kind |-> "database", errors |-> << >>]]
                        ELSE [@ EXCEPT !.pc = "front", !.dbResult = r.dbResult,
                                       !.finalOutputPath =
                                         pathJoin(OutputDir,
                                           generateVersionedFilename(
                                             Get(call[c].config, "Company").s,
                                             r.dbResult.versionNumber, now))]]
  /\ UNCHANGED <<fs, req, pure>>

GenerateFrontPage(c) ==
  /\ call[c].pc = "front"
  /\ LET r == generateFrontPage(fs, c)
     IN /\ fs' = r.files
        /\ call' = [call EXCEPT ![c] =
             [@ EXCEPT !.pc = IF Len(Templates(c)) = 0 THEN "toc" ELSE "templates",
                       !.frontPagePath = r.path, !.idx = 1, !.pageCounter = 1]]
  /\ UNCHANGED <<db, req, pure>>

ProcessTemplate(c) ==
  /\ call[c].pc = "templates"
  /\ LET sec == call[c].idx
         r == processSection(fs, Templates(c)[sec], call[c].pageCounter, c, sec)
     IN /\ fs' = r.files
        /\ call' = [call EXCEPT ![c] =
             [@ EXCEPT !.pc = IF sec = Len(Templates(c)) THEN "toc" ELSE "templates",
                       !.idx = sec + 1,
                       !.processedTemplates = @ \o r.paths,
                       !.pathSec = @ \o [i \in 1..Len(r.paths) |-> sec],
                       !.tocData = @ \o r.toc,
                       !.tocSec = @ \o [i \in 1..Len(r.toc) |-> sec],
                       !.pageCounter = @ + r.advance]]
  /\ UNCHANGED <<db, req, pure>>

GenerateTableOfContents(c) ==
  /\ call[c].pc = "toc"
  /\ LET tocPath == pathJoin(OutputDir, <<"temp_", "toc", ".pdf">>)
     IN /\ fs' = generateTOCProgrammatically(fs, tocPath, call[c].tocData, c)
        /\ call' = [call EXCEPT ![c] = [@ EXCEPT !.pc = "merge", !.tocPath = tocPath]]
  /\ UNCHANGED <<db, req, pure>>

\* the list generateProposal hands to the merge and to the cleanup
PdfPaths(c) == <<call[c].frontPagePath, call[c].tocPath>> \o call[c].processedTemplates

Merge(c) ==
  /\ call[c].pc = "merge"
  /\ IF WriteThrows(call[c].finalOutputPath)
       THEN /\ fs' = fs
            /\ call' = [call EXCEPT ![c] =
                 [@ EXCEPT !.pc = "failed", !.error = [kind |-> "merge", errors |-> << >>]]]
       ELSE /\ fs' = mergeFinalProposal(fs, PdfPaths(c), call[c].finalOutputPath)
            /\ call' = [call EXCEPT ![c] = [@ EXCEPT !.pc = "dbupdate"]]
  /\ UNCHANGED <<db, req, pure>>

\* the update of document_path; its error, if any, is not looked at
UpdateDocumentPath(c) ==
  /\ call[c].pc = "dbupdate"
  /\ \E updated \in BOOLEAN :
       db' = IF call[c].dbResult.created /\ updated
               THEN [db EXCEPT !.versions[call[c].dbResult.versionId].document_path =
                                  basename(call[c].finalOutputPath)]
               ELSE db
  /\ call' = [call EXCEPT ![c] = [@ EXCEPT !.pc = "cleanup"]]
  /\ UNCHANGED <<fs, req, pure>>

Cleanup(c) ==
  /\ call[c].pc = "cleanup"
  /\ fs' = cleanupTempFiles(fs, PdfPaths(c))
  /\ call' = [call EXCEPT ![c] = [@ EXCEPT !.pc = "summary"]]
  /\ UNCHANGED <<db, req, pure>>

\* FileUtils.getFileSize, the size of a document counted in pages, 0 on error
getFileSize(files, filePath) ==
  IF Loads(files, filePath) THEN Len(files[filePath].pages) ELSE 0

generateResultSummary(c) ==
  [success |-> TRUE, outputPath |-> call[c].finalOutputPath,
   fileName |-> basename(call[c].finalOutputPath),
   fileSizeBytes |-> getFileSize(fs, call[c].finalOutputPath),
   company |-> Get(call[c].config, "Company"),
   sectionsCount |-> Len(call[c].tocData),
   templatesProcessed |-> Len(Templates(c)),
   database |-> call[c].dbResult]

ReturnSummary(c) ==
  /\ call[c].pc = "summary"
  /\ call' = [call EXCEPT ![c] = [@ EXCEPT !.pc = "done", !.result = generateResultSummary(c)]]
  /\ UNCHANGED <<fs, db, req, pure>>

(***************************************************************************)
(* The configurations and file systems generateProposal is started on.     *)
(***************************************************************************)
PlainA == Template(Str(<<"Intro">>), Str(Pdf("A")), Bool(FALSE), Undef, Undef, Undef, Undef, Undef)
PlainB == Template(Str(<<"Fees">>), Str(Pdf("B")), Bool(FALSE), Undef, Undef, Undef, Undef, Undef)
EditableA ==
  Template(Str(<<"Cover Letter">>), Str(Pdf("A")), Bool(TRUE),
           Obj(<<KV("CompanyName", Str(<<"Acme">>))>>), Undef, Undef, Undef, Undef)
EditableAgain ==
  Template(Str(<<"Closing Letter">>), Str(Pdf("A")), Bool(TRUE),
           Obj(<<KV("CompanyName", Str(<<"Bolt">>))>>), Undef, Undef, Undef, Undef)
StaffB ==
  Template(Str(<<"Staff Profiles">>), Str(Pdf("B")), Bool(FALSE), Undef, Undef, Undef, Undef,
           Arr(<<Staff(Str(<<"Bob">>), Str(Pdf("S")))>>))
StaffThrowing ==
  Template(Str(<<"Staff Profiles">>), Str(Pdf("B")), Bool(FALSE), Undef, Undef, Undef, Undef,
           Arr(<<Staff(Str(<<"Bob">>), Num(7))>>))
MembersA ==
  Template(Str(<<"Member Association">>), Str(Pdf("A")), Bool(FALSE), Undef, Undef, Undef,
           Arr(<<Str(<<"Alice">>)>>), Undef)
\* a Staff Profiles block with an intro file and two staff files
StaffTwo ==
  Template(Str(<<"Staff Profiles">>), Str(Pdf("B")), Bool(FALSE), Undef, Undef, Undef, Undef,
           Arr(<<Staff(Str(<<"Bob">>), Str(Pdf("S"))), Staff(Str(<<"Ann">>), Str(Pdf("A")))>>))
\* a plain template whose file name holds 'temp_'
PlainTemp ==
  Template(Str(<<"Notes">>), Str(<<"temp_", "notes", ".pdf">>), Bool(FALSE), Undef, Undef,
           Undef, Undef, Undef)
Nameless == Template(Undef, Str(Pdf("A")), Undef, Undef, Undef, Undef, Undef, Undef)

GenTemplates == {PlainA, PlainB, EditableA, StaffB, StaffThrowing, MembersA}

GenConfigs ==
  {Config(Str(<<"Acme">>), Arr(ts)) : ts \in SeqsUpTo(GenTemplates, MaxTemplates)}
    \cup {Config(Str(<< >>), Arr(<<PlainA>>)), Config(Str(<<"Acme">>), Arr(<<Nameless>>)),
          Config(Str(<< >>), Arr(<<PlainB, Nameless>>))}

OutputNames == {Undef, Str(<<"Page-Number-Test", ".pdf">>)}

\* calls besides GenConfigs \X OutputNames: a template file named like a
\* temporary, an output file name in a directory that is not there, and
\* output file names that hold 'temp_'
SpecialCalls ==
  {InitCall(Config(Str(<<"Acme">>), Arr(ts)), out) :
     ts \in {<<PlainTemp>>, <<EditableA, PlainTemp>>, <<StaffTwo>>, <<PlainA, StaffTwo>>},
     out \in OutputNames}
  \cup {InitCall(Config(Str(<<"Acme">>), Arr(ts)), Str(<<"reports", "/", "out", ".pdf">>)) :
          ts \in {<<PlainA>>, <<EditableA>>, <<StaffB, EditableA>>}}
  \cup {InitCall(Config(Str(<<"Acme">>), Arr(<<EditableA>>)), Str(out)) :
          out \in {<<"temp_", "toc", ".pdf">>, <<"temp_", "frontpage", ".pdf">>,
                    <<"temp_", "A", ".pdf">>, <<"my", "temp_", "file", ".pdf">>}}
  \cup {InitCall(Config(Str(<<"Acme">>), Arr(<<EditableA, EditableAgain>>)), Undef)}

CompanyTemplatePath == pathJoin(TemplatesDir, <<"Template Company", ".pdf">>)
PathA == pathJoin(TemplatesDir, Pdf("A"))
PathB == pathJoin(TemplatesDir, Pdf("B"))
PathS == pathJoin(TemplatesDir, Pdf("S"))
PathT == pathJoin(TemplatesDir, <<"temp_", "notes", ".pdf">>)
AliceImage == pathJoin(pathJoin(TemplatesDir, <<"Member Association">>), <<"Alice", ".jpg">>)

\* the paths of the staff files of a template that are strings
StaffPaths(template) ==
  IF IsArray(Get(template, "staffs"))
    THEN {pathJoin(TemplatesDir, Get(Get(template, "staffs").a[j], "fileName").s) :
            j \in {k \in 1..Len(Get(template, "staffs").a) :
                     Get(Get(template, "staffs").a[k], "fileName").t = "string"}}
    ELSE {}

\* the paths a run of generateProposal on config can look at: none when the
\* validation stops it
Referenced(config) ==
  IF validateProposalConfig(config) # << >> THEN {}
  ELSE LET ts == Get(config, "Templates").a
       IN {CompanyTemplatePath}
            \cup {pathJoin(TemplatesDir, Get(ts[i], "fileName").s) : i \in 1..Len(ts)}
            \cup UNION {StaffPaths(ts[i]) : i \in 1..Len(ts)}
            \cup (IF \E i \in 1..Len(ts) : ts[i] = MembersA THEN {AliceImage} ELSE {})

\* the ways a path can be at the start: missing, or holding one of the
\* contents; a path the run never looks at is left out
Placed(path, contents, config) ==
  IF path \in Referenced(config)
    THEN {<< >>} \cup {path :> content : content \in contents}
    ELSE {<< >>}

InitialFileSystems(config) ==
  {tc @@ a @@ b @@ s @@ t @@ img :
     tc \in Placed(CompanyTemplatePath,
                   {BadFile} \cup {TemplateFile(CompanyTemplatePath, p) : p \in {1, MaxPages}},
                   config),
     a \in Placed(PathA, {BadFile} \cup {TemplateFile(PathA, p) : p \in 1..MaxPages}, config),
     b \in Placed(PathB, {TemplateFile(PathB, p) : p \in {1, MaxPages}}, config),
     s \in Placed(PathS, {TemplateFile(PathS, MaxPages)}, config),
     t \in Placed(PathT, {TemplateFile(PathT, 1)}, config),
     img \in Placed(AliceImage, {ImgFile}, config)}

Init ==
  /\ call \in {<<InitCall(config, out)>> : config \in GenConfigs, out \in OutputNames}
               \cup {<<special>> : special \in SpecialCalls}
  /\ fs \in InitialFileSystems(call[1].config)
  /\ db = NoRows
  /\ req = NoRequest
  /\ pure = NoPure

\* call c is past the step that settles the output path
OutputSettled(c) ==
  \/ call[c].pc \in {"front", "templates", "toc", "merge", "dbupdate", "cleanup", "summary",
                     "done"}
  \/ call[c].pc = "failed" /\ call[c].error.kind = "merge"

NoOutputFiles(files) == \A path \in DOMAIN files : path[1] # OutputDir[1]

C12_OriginalsKept ==
  \A c \in DOMAIN call :
    call[c].pc \in {"summary", "done"} =>
      \A j \in 1..Len(PdfPaths(c)) :
        PdfPaths(c)[j][1] = TemplatesDir[1] => existsSync(fs, PdfPaths(c)[j])

\* the temporaries in the output directory
TempArtifacts(files) == {p \in DOMAIN files : p[1] = OutputDir[1] /\ includes(p, "temp_")}

\* C14: when generateProposal has finished, with a summary or with an error
\* thrown after the front page was written, the temporaries it created are
\* deleted.
C14_TempsDeletedAtEnd ==
  \A c \in DOMAIN call :
    (call[c].pc \in {"done", "failed"} /\ Len(call) = 1) => TempArtifacts(fs) = {}

\* C15: a summary returned with database identifiers implies that no
\* database call of the generation failed, so the version row's
\* document_path is the returned fileName.
C15_SummaryImpliesPathRecorded ==
  \A c \in DOMAIN call :
    (call[c].pc = "done" /\ call[c].result.database.created) =>
      db.versions[call[c].result.database.versionId].document_path = call[c].result.fileName

\* the number of pages a file adds to the counter: its pages, 1 when it
\* cannot be read
CountedPages(files, path) == IF Loads(files, path) THEN Len(files[path].pages) ELSE 1

\* C16: for a Staff Profiles template with a non-empty list of staffs (each
\* with a string fileName), the step of processTemplates appends the intro
\* path if the file exists, then the path of every existing staff file in
\* list order, appends the one entry 'Staff Profiles' with the counter's
\* value before the block, and advances the counter by the pages of the
\* appended files.
C16_StaffBlock ==
  [][\A c \in DOMAIN call :
       (/\ call[c].pc = "templates" /\ call'[c].idx = call[c].idx + 1
        /\ isStaffProfiles(Templates(c)[call[c].idx])
        /\ \A j \in 1..Len(Get(Templates(c)[call[c].idx], "staffs").a) :
             Get(Get(Templates(c)[call[c].idx], "staffs").a[j], "fileName").t = "string")
       => LET template == Templates(c)[call[c].idx]
              staffs == Get(template, "staffs").a
              files == <<Get(template, "fileName").s>>
                         \o [j \in 1..Len(staffs) |-> Get(staffs[j], "fileName").s]
              appended == SelectSeq([i \in 1..Len(files) |-> pathJoin(TemplatesDir, files[i])],
                                    LAMBDA p : existsSync(fs, p))
          IN /\ call'[c].processedTemplates = call[c].processedTemplates \o appended
             /\ call'[c].tocData =
                  Append(call[c].tocData,
                         [title |-> <<"Staff Profiles">>, page |-> call[c].pageCounter])
             /\ call'[c].pageCounter =
                  call[c].pageCounter
                    + SumSeq([i \in 1..Len(appended) |-> CountedPages(fs, appended[i])])
             /\ fs' = fs]_vars

\* the block of an intro file of one page and two staff files, of two pages
\* or more and of one page, was processed first: entry page 1, three paths,
\* the counter advanced by their pages
C16_Witness ==
  \E c \in DOMAIN call :
    /\ call[c].pc = "toc"
    /\ Templates(c) = <<StaffTwo>>
    /\ call[c].processedTemplates = <<PathB, PathS, PathA>>
    /\ Len(fs[PathB].pages) = 1 /\ Len(fs[PathS].pages) >= 2 /\ Loads(fs, PathA)
    /\ Len(fs[PathA].pages) = 1
    /\ call[c].tocData = <<[title |-> <<"Staff Profiles">>, page |-> 1]>>
    /\ call[c].pageCounter = 1 + 1 + Len(fs[PathS].pages) + 1

Next ==
  \/ \E c \in DOMAIN call : Validate(c)
  \/ \E c \in DOMAIN call : DetermineOutput(c)
  \/ \E c \in DOMAIN call : GenerateFrontPage(c)
  \/ \E c \in DOMAIN call : ProcessTemplate(c)
  \/ \E c \in DOMAIN call : GenerateTableOfContents(c)
  \/ \E c \in DOMAIN call : Merge(c)
  \/ \E c \in DOMAIN call : UpdateDocumentPath(c)
  \/ \E c \in DOMAIN call : Cleanup(c)
  \/ \E c \in DOMAIN call : ReturnSummary(c)

Spec == Init /\ [][Next]_vars

(***************************************************************************)
(* Properties of one generateProposal call.                                *)
(***************************************************************************)
\* the merge of call c has written its document
Merged(c) ==
  /\ call[c].pc \in {"dbupdate", "cleanup", "summary", "done"}
  /\ Loads(fs, call[c].finalOutputPath)

\* the pages of the document call c produced
Document(c) == fs[call[c].finalOutputPath].pages

\* the section of config.Templates that contributed a page of the document,
\* 0 for a page of the front page or of the table of contents
SectionOf(c, page) == IF page.inp >= 3 THEN call[c].pathSec[page.inp - 2] ELSE 0

Min(S) == CHOOSE x \in S : \A y \in S : x <= y
Max(S) == CHOOSE x \in S : \A y \in S : x >= y

\* C1: each entry of the table of contents names the content page number
\* (physical page index minus 1) of the first page its section contributes
\* to the merged document.
C1_TocPageIsFirstPageOfSection ==
  \A c \in DOMAIN call :
    Merged(c) =>
      \A e \in 1..Len(call[c].tocData) :
        LET mine == {k \in 1..Len(Document(c)) :
                       SectionOf(c, Document(c)[k]) = call[c].tocSec[e]}
        IN mine # {} => call[c].tocData[e].page = (Min(mine) - 1) - 1

\* C2: in the document the pages of the front page and of the table of
\* contents carry no 'Page X of Y' label and every other page carries
\* exactly one.
C2_FrontAndTocUnnumbered ==
  \A c \in DOMAIN call :
    Merged(c) =>
      \A k \in 1..Len(Document(c)) :
        IF Document(c)[k].inp \in {1, 2}
          THEN Document(c)[k].labels = << >>
          ELSE Len(Document(c)[k].labels) = 1

\* C3: the first content page of the document is labelled 'Page 1 of M' and
\* the last one 'Page M of M', M being the number of content pages.
C3_ContentNumberedFromOne ==
  \A c \in DOMAIN call :
    Merged(c) =>
      LET content == {k \in 1..Len(Document(c)) : Document(c)[k].inp >= 3}
          M == Cardinality(content)
      IN M > 0 =>
           /\ Document(c)[Min(content)].labels = <<Label(1, M)>>
           /\ Document(c)[Max(content)].labels = <<Label(M, M)>>

\* a page as its source document holds it
Source(page) == [page EXCEPT !.inp = 0, !.labels = << >>]

\* C4: the merge of a list of readable documents yields their pages in list
\* order, each document's pages in their own order, so as many pages as the
\* inputs hold together.
C4_MergeConcatenates ==
  [][\A c \in DOMAIN call :
       (/\ call[c].pc = "merge" /\ call'[c].pc = "dbupdate"
        /\ \A j \in 1..Len(PdfPaths(c)) : Loads(fs, PdfPaths(c)[j]))
       => LET inputs == [j \in 1..Len(PdfPaths(c)) |-> fs[PdfPaths(c)[j]].pages]
              out == fs'[call[c].finalOutputPath].pages
          IN /\ Len(out) = SumSeq([j \in 1..Len(inputs) |-> Len(inputs[j])])
             /\ [k \in 1..Len(out) |-> Source(out[k])] = Flatten(inputs)
             /\ \A k \in 1..Len(out) - 1 : out[k].inp <= out[k + 1].inp]_vars

\* a merge of the front page, the table of contents and two section
\* documents, all readable, one of them of more than one page
C4_Witness ==
  \E c \in DOMAIN call :
    /\ call[c].pc = "dbupdate"
    /\ Len(PdfPaths(c)) = 4
    /\ \A j \in 1..4 : Loads(fs, PdfPaths(c)[j])
    /\ PdfPaths(c)[3] # PdfPaths(c)[4]
    /\ Len(fs[PdfPaths(c)[3]].pages) = 2
    /\ Len(Document(c)) = 2 + 2 + Len(fs[PdfPaths(c)[4]].pages)

\* the processing of a template raises an error
Raises(files, template) ==
  Branch(template) = "staff" /\ processStaffProfiles(files, template).threw

\* C5: processTemplates returns at most one entry per template, in template
\* order, hence at most N entries for N templates, and exactly one for a
\* template whose file exists and whose processing raises no error.
C5_AtMostOneEntryPerTemplate ==
  \A c \in DOMAIN call :
    call[c].pc \in {"templates", "toc", "merge", "dbupdate", "cleanup", "summary", "done"} =>
      LET toc == call[c].tocData
          secs == call[c].tocSec
          processed == call[c].idx - 1
      IN /\ Len(toc) <= Len(Templates(c))
         /\ Len(secs) = Len(toc)
         /\ \A e \in 1..Len(toc) :
              /\ secs[e] \in 1..processed
              /\ toc[e].title = Get(Templates(c)[secs[e]], "name").s
         /\ \A e1, e2 \in 1..Len(toc) : e1 < e2 => secs[e1] < secs[e2]
         /\ \A i \in 1..processed :
              (/\ existsSync(fs, pathJoin(TemplatesDir, Get(Templates(c)[i], "fileName").s))
               /\ ~Raises(fs, Templates(c)[i]))
              => \E e \in 1..Len(toc) : secs[e] = i

\* processTemplates has returned: a Staff Profiles block of two files made
\* one entry and another template was skipped
C5_Witness ==
  \E c \in DOMAIN call :
    /\ call[c].pc = "toc"
    /\ Len(Templates(c)) = 2
    /\ Len(call[c].tocData) = 1
    /\ Len(call[c].processedTemplates) = 2
    /\ call[c].tocData[1].title = <<"Staff Profiles">>

\* C6: when validateProposalConfig returns errors, generateProposal fails
\* with all of them and has had no effect: no row, no file in the output
\* directory.
C6_InvalidConfigHasNoEffect ==
  \A c \in DOMAIN call :
    (call[c].pc # "validate" /\ Len(validateProposalConfig(call[c].config)) > 0) =>
      /\ call[c].pc = "failed"
      /\ call[c].error = [kind |-> "validation",
                          errors |-> validateProposalConfig(call[c].config)]
      /\ db = NoRows
      /\ \A p \in DOMAIN fs : p[1] # OutputDir[1]
      /\ call[c].result = NoResult

\* a call failed on a config with two violations
C6_Witness ==
  \E c \in DOMAIN call :
    /\ call[c].pc = "failed"
    /\ call[c].error.kind = "validation"
    /\ Len(call[c].error.errors) >= 2

(***************************************************************************)
(* ValidationUtils.validateApiRequest and the POST /generate route.  req   *)
(* holds the request: body as it was received, config and outputFileName   *)
(* as the properties of req.body of these names, and as history the value  *)
(* the route's own normalisation returned (normalized) and the value       *)
(* validateProposalConfig was applied to (validated, undefined when it was *)
(* not applied).                                                           *)
(***************************************************************************)
\* /^[\w\-. ]+\.pdf$/i on a tokenised name
BadNameTokens == {"/", "&", ","}
matchesPdfName(s) ==
  /\ Len(s) >= 2
  /\ s[Len(s)] = ".pdf"
  /\ \A i \in 1..Len(s) - 1 : s[i] \notin BadNameTokens

\* the checks of validateApiRequest on outputFileName
outputFileNameErrors(outputFileName) ==
  (IF Truthy(outputFileName) /\ TypeOf(outputFileName) # "string"
     THEN <<Err("outputFileName type", -1, -1)>> ELSE << >>)
  \o (IF Truthy(outputFileName)
          /\ ~(outputFileName.t = "string" /\ matchesPdfName(outputFileName.s))
        THEN <<Err("outputFileName pattern", -1, -1)>> ELSE << >>)

\* what the route and validateApiRequest hand to normalizeConfig: the config
\* property when it is truthy, the whole body otherwise (a falsy config
\* property set on the body changes nothing normalizeConfig reads)
NormalizeArgument(body, config) == IF Truthy(config) THEN config ELSE body

\* the config validateApiRequest works on
apiConfig(request) == normalizeConfig(NormalizeArgument(request.body, request.config))

\* whether validateApiRequest applies validateProposalConfig to it
hasConfig(config) ==
  Truthy(config) /\ (Truthy(Get(config, "Company")) \/ Truthy(Get(config, "Templates")))

validateApiRequest(request) ==
  (IF hasConfig(apiConfig(request))
     THEN validateProposalConfig(apiConfig(request))
     ELSE <<Err("body", -1, -1)>>)
  \o outputFileNameErrors(request.outputFileName)

Request(body) ==
  [pc |-> "received", body |-> body, config |-> Get(body, "config"),
   outputFileName |-> Get(body, "outputFileName"), normalized |-> Undef,
   validated |-> Undef, status |-> 0, errors |-> << >>]

\* the first statement of the handler
RouteNormalize ==
  /\ req.pc = "received"
  /\ LET argument == NormalizeArgument(req.body, req.config)
     IN req' = IF normalizeConfigThrows(argument)
                 THEN [req EXCEPT !.pc = "responded", !.status = 500]
                 ELSE [req EXCEPT !.pc = "normalized",
                                  !.config = normalizeConfig(argument),
                                  !.normalized = normalizeConfig(argument)]
  /\ UNCHANGED <<fs, db, call, pure>>

\* validateApiRequest, the 400 response, and the call of generateProposal
RouteValidate ==
  /\ req.pc = "normalized"
  /\ IF normalizeConfigThrows(NormalizeArgument(req.body, req.config))
       THEN /\ req' = [req EXCEPT !.pc = "responded", !.status = 500]
            /\ call' = call
       ELSE LET config == apiConfig(req)
                validationErrors == validateApiRequest(req)
                checked == [req EXCEPT !.config = config,
                                       !.validated = IF hasConfig(config) THEN config
                                                                          ELSE Undef]
            IN IF Len(validationErrors) > 0
                 THEN /\ req' = [checked EXCEPT !.pc = "responded", !.status = 400,
                                                !.errors = validationErrors]
                      /\ call' = call
                 ELSE /\ req' = [checked EXCEPT !.pc = "generating"]
                      /\ call' = <<InitCall(config, req.outputFileName)>>
  /\ UNCHANGED <<fs, db, pure>>

\* the response once generateProposal returned or threw
RouteRespond ==
  /\ req.pc = "generating"
  /\ call[1].pc \in {"done", "failed"}
  /\ req' = [req EXCEPT !.pc = "responded",
                        !.status = IF call[1].pc = "done" THEN 200 ELSE 500]
  /\ UNCHANGED <<fs, db, call, pure>>

\* the wrapper shapes
ArrayWrapper(x) == Arr(<<x>>)
JSONWrapper(x) == Obj(<<KV("JSON", Obj(<<KV("config", x)>>))>>)
ConfigWrapper(x) == Obj(<<KV("config", x)>>)

RECURSIVE Wrapped(_, _)
\* the values of S in at most n wrapper shapes
Wrapped(S, n) ==
  IF n = 0 THEN S
  ELSE LET inner == Wrapped(S, n - 1)
       IN inner \cup {ArrayWrapper(x) : x \in inner} \cup {JSONWrapper(x) : x \in inner}
                \cup {ConfigWrapper(x) : x \in inner}

ConfigX == Config(Str(<<"X">>), Arr(<< >>))
ConfigAcme == Config(Str(<<"Acme">>), Arr(<<PlainA>>))
ConfigDated ==
  Obj(<<KV("Company", Str(<<"Acme">>)), KV("Templates", Arr(<<PlainA>>)),
        KV("Date", Str(<<"2024">>))>>)
ConfigNoCompany == Config(Str(<< >>), Arr(<<PlainA>>))

\* configs with a company name, and values a request can also hold
NamedConfigs == {ConfigX, ConfigAcme, ConfigDated}
RouteConfigs == NamedConfigs \cup {ConfigNoCompany, Obj(<< >>)}
RouteValues == RouteConfigs \cup {Null}

RouteOutputNames ==
  {Undef, Str(<<"out", ".pdf">>), Str(<<"..", "/", "out", ".pdf">>), Num(5),
   Str(<<"temp_", "toc", ".pdf">>)}

\* a request body is a JSON object or array: the value itself, or an object
\* with the value as config and with an outputFileName
RouteBodies ==
  {x \in Wrapped(RouteValues, MaxWrap) : x.t \in {"object", "array"}}
    \cup {MkObj(<<KV("config", x), KV("outputFileName", name)>>) :
            x \in Wrapped(RouteValues, MaxWrap), name \in RouteOutputNames}

RouteFiles ==
  (CompanyTemplatePath :> TemplateFile(CompanyTemplatePath, 1))
    @@ (PathA :> TemplateFile(PathA, MaxPages))

InitRoute ==
  /\ req \in {Request(body) : body \in RouteBodies}
  /\ fs = RouteFiles
  /\ db = NoRows
  /\ call = NoCalls
  /\ pure = NoPure

NextRoute ==
  \/ RouteNormalize
  \/ RouteValidate
  \/ RouteRespond
  \/ \E c \in DOMAIN call : Validate(c)
  \/ \E c \in DOMAIN call : DetermineOutput(c)
  \/ \E c \in DOMAIN call : GenerateFrontPage(c)
  \/ \E c \in DOMAIN call : ProcessTemplate(c)
  \/ \E c \in DOMAIN call : GenerateTableOfContents(c)
  \/ \E c \in DOMAIN call : Merge(c)
  \/ \E c \in DOMAIN call : UpdateDocumentPath(c)
  \/ \E c \in DOMAIN call : Cleanup(c)
  \/ \E c \in DOMAIN call : ReturnSummary(c)

SpecRoute == InitRoute /\ [][NextRoute]_vars

(***************************************************************************)
(* Properties of the route and of normalizeConfig.                         *)
(***************************************************************************)
\* the route's own normalisation has returned
RouteNormalized == req.pc \in {"normalized", "generating", "responded"} /\ req.status # 500

\* what the route gave to normalizeConfig
RouteInput == NormalizeArgument(req.body, Get(req.body, "config"))

\* the wrapper shapes of a config and the config itself
Shapes(C) == {ArrayWrapper(ConfigWrapper(C)), JSONWrapper(C), ConfigWrapper(C), C}

\* C10 as stated: normalizeConfig returns the inner config for
\* [ {config:C} ], {JSON:{config:C}} and {config:C} and returns a bare C
\* unchanged, normalising its result again changes nothing, and what the
\* route validates is the result of its normalisation.
C10_NormalizeUnwrapsAndIsIdempotent ==
  RouteNormalized =>
    /\ \A C \in RouteConfigs : RouteInput \in Shapes(C) => req.normalized = C
    /\ ~normalizeConfigThrows(req.normalized)
    /\ normalizeConfig(req.normalized) = req.normalized
    /\ req.validated # Undef => req.validated = req.normalized

\* C10 amended: for a config C with a non-empty Company, normalizeConfig
\* returns C for the three wrapper shapes and for C itself; for such a C in
\* any nesting of wrapper shapes, normalising the result again changes
\* nothing; for {config:C} and [ {config:C} ] with a C that has Templates
\* but an empty Company it returns a new object {Company: null, Templates};
\* and the route validates nothing but the normalisation of what its own
\* normalisation returned, which for the named configs is its result.
C10_NamedConfigUnwrapped ==
  RouteNormalized =>
    /\ \A C \in NamedConfigs : RouteInput \in Shapes(C) => req.normalized = C
    /\ RouteInput \in Wrapped(NamedConfigs, MaxWrap) =>
         /\ ~normalizeConfigThrows(req.normalized)
         /\ normalizeConfig(req.normalized) = req.normalized
         /\ req.pc # "normalized" => req.validated = req.normalized
    /\ \A C \in RouteConfigs :
         (/\ ~Truthy(Get(C, "Company")) /\ Truthy(Get(C, "Templates"))
          /\ RouteInput \in {ConfigWrapper(C), ArrayWrapper(ConfigWrapper(C))})
         => req.normalized = Config(Null, Get(C, "Templates"))
    /\ req.pc # "normalized" =>
         \/ req.validated = Undef /\ ~hasConfig(normalizeConfig(req.normalized))
         \/ req.validated = normalizeConfig(req.normalized)

\* the route answered a request whose body is [ {config:C} ], C a config
\* with a property besides Company and Templates, after validating C
C10_Witness ==
  /\ req.pc = "responded"
  /\ req.status = 200
  /\ req.body = ArrayWrapper(ConfigWrapper(ConfigDated))
  /\ req.normalized = ConfigDated
  /\ req.validated = ConfigDated

(***************************************************************************)
(* POST /:proposalId/refine.  req is a sequence of refine requests whose   *)
(* steps interleave at the awaits of the handler: the fetch of the         *)
(* proposal, the read of the next version number, the steps of             *)
(* generateProposal and the insert of the new version row.                 *)
(***************************************************************************)
\* the rows of proposal_versions of a proposal, highest version first is
\* all the handler uses of the order
VersionsOf(rows, proposalId) ==
  SelectSeq(rows.versions, LAMBDA v : v.proposal_id = proposalId)

MaxVersion(rows, proposalId) ==
  LET vs == VersionsOf(rows, proposalId)
  IN IF vs = << >> THEN 0
     ELSE CHOOSE n \in {vs[i].version_number : i \in 1..Len(vs)} :
            \A i \in 1..Len(vs) : vs[i].version_number <= n

\* versions[0] of getProposalWithVersions
latestVersion(rows, proposalId) ==
  LET vs == VersionsOf(rows, proposalId)
  IN vs[CHOOSE i \in 1..Len(vs) : vs[i].version_number = MaxVersion(rows, proposalId)]

getNextVersionNumber(rows, proposalId) == MaxVersion(rows, proposalId) + 1

ProposalExists(rows, proposalId) ==
  \E i \in 1..Len(rows.proposals) : rows.proposals[i].id = proposalId

RefineRequest(proposalId, body) ==
  [pc |-> "received", proposalId |-> proposalId, body |-> body,
   proposalData |-> Undef, nextVersionNumber |-> 0, versionedFilename |-> << >>,
   call |-> 0, status |-> 0]

\* the proposal data the handler settles on, for a body and the rows read
refineProposalData(rows, proposalId, body) ==
  IF Truthy(Get(body, "config"))
    THEN normalizeConfig(Get(body, "config"))
    ELSE LET normalizedBody == normalizeConfig(body)
         IN IF Truthy(normalizedBody) /\ Truthy(Get(normalizedBody, "Company"))
                 /\ Truthy(Get(normalizedBody, "Templates"))
              THEN normalizedBody
              ELSE latestVersion(rows, proposalId).proposal_data

\* getProposalWithVersions and the choice of the proposal data
RefineFetch(r) ==
  /\ req[r].pc = "received"
  /\ req' = [req EXCEPT ![r] =
       IF ~ProposalExists(db, req[r].proposalId)
         THEN [@ EXCEPT !.pc = "responded", !.status = 500]
       ELSE IF Truthy(Get(req[r].body, "config"))
                 /\ normalizeConfigThrows(Get(req[r].body, "config"))
         THEN [@ EXCEPT !.pc = "responded", !.status = 500]
       ELSE IF VersionsOf(db, req[r].proposalId) = << >>
         THEN [@ EXCEPT !.pc = "responded", !.status = 500]
       ELSE LET proposalData == refineProposalData(db, req[r].proposalId, req[r].body)
            IN IF ~Truthy(proposalData)
                 THEN [@ EXCEPT !.pc = "responded", !.status = 400]
                 ELSE [@ EXCEPT !.pc = "fetched", !.proposalData = proposalData]]
  /\ UNCHANGED <<fs, db, call, pure>>

\* getNextVersionNumber, generateVersionedFilename and the call of
\* generateProposal with the versioned file name
RefineNextVersion(r) ==
  /\ req[r].pc = "fetched"
  /\ \E read \in BOOLEAN, now \in Times :
       IF ~read \/ Get(req[r].proposalData, "Company").t # "string"
         THEN /\ req' = [req EXCEPT ![r] = [@ EXCEPT !.pc = "responded", !.status = 500]]
              /\ call' = call
         ELSE LET nextVersionNumber == getNextVersionNumber(db, req[r].proposalId)
                  versionedFilename ==
                    generateVersionedFilename(Get(req[r].proposalData, "Company").s,
                                              nextVersionNumber, now)
              IN /\ call' = Append(call, InitCall(req[r].proposalData, Str(versionedFilename)))
                 /\ req' = [req EXCEPT ![r] =
                      [@ EXCEPT !.pc = "generating",
                                !.nextVersionNumber = nextVersionNumber,
                                !.versionedFilename = versionedFilename,
                                !.call = Len(call) + 1]]
  /\ UNCHANGED <<fs, db, pure>>

\* createProposalVersion after generateProposal returned, and the response
RefineCreateVersion(r) ==
  /\ req[r].pc = "generating"
  /\ call[req[r].call].pc = "done"
  /\ \E inserted \in BOOLEAN :
       IF inserted
         THEN /\ db' = createProposalVersion(db, req[r].proposalId, req[r].nextVersionNumber,
                                             req[r].versionedFilename, req[r].proposalData)
              /\ req' = [req EXCEPT ![r] = [@ EXCEPT !.pc = "responded", !.status = 200]]
         ELSE /\ db' = db
              /\ req' = [req EXCEPT ![r] = [@ EXCEPT !.pc = "responded", !.status = 500]]
  /\ UNCHANGED <<fs, call, pure>>

\* the response after generateProposal threw
RefineFailed(r) ==
  /\ req[r].pc = "generating"
  /\ call[req[r].call].pc = "failed"
  /\ req' = [req EXCEPT ![r] = [@ EXCEPT !.pc = "responded", !.status = 500]]
  /\ UNCHANGED <<fs, db, call, pure>>

RefineBodies ==
  {Obj(<< >>), Obj(<<KV("config", ConfigWrapper(ConfigX))>>),
   Obj(<<KV("config", ConfigNoCompany)>>)}

\* the rows after a generation of ConfigAcme that wrote its version 1
GeneratedRows ==
  createProposalVersion(createProposal(NoRows, <<"Acme">>), 1, 1,
                        generateVersionedFilename(<<"Acme">>, 1, "110000"), ConfigAcme)

InitRefine ==
  /\ req \in {<<RefineRequest(1, b1), RefineRequest(p2, b2)>> :
                b1 \in RefineBodies, b2 \in RefineBodies, p2 \in {1, 2}}
  /\ fs = RouteFiles
  /\ db = GeneratedRows
  /\ call = NoCalls
  /\ pure = NoPure

NextRefine ==
  \/ \E r \in DOMAIN req : RefineFetch(r)
  \/ \E r \in DOMAIN req : RefineNextVersion(r)
  \/ \E r \in DOMAIN req : RefineCreateVersion(r)
  \/ \E r \in DOMAIN req : RefineFailed(r)
  \/ \E c \in DOMAIN call : Validate(c)
  \/ \E c \in DOMAIN call : DetermineOutput(c)
  \/ \E c \in DOMAIN call : GenerateFrontPage(c)
  \/ \E c \in DOMAIN call : ProcessTemplate(c)
  \/ \E c \in DOMAIN call : GenerateTableOfContents(c)
  \/ \E c \in DOMAIN call : Merge(c)
  \/ \E c \in DOMAIN call : UpdateDocumentPath(c)
  \/ \E c \in DOMAIN call : Cleanup(c)
  \/ \E c \in DOMAIN call : ReturnSummary(c)

SpecRefine == InitRefine /\ [][NextRefine]_vars

\* C11: the version numbers of the rows of a proposal are 1, 2, ..., k with
\* no duplicate and no gap, whatever generate and refine calls succeeded and
\* however their steps interleaved.
C11_VersionNumbersDense ==
  \A p \in 1..Len(db.proposals) :
    LET vs == VersionsOf(db, p)
    IN /\ \A i, j \in 1..Len(vs) : i # j => vs[i].version_number # vs[j].version_number
       /\ {vs[i].version_number : i \in 1..Len(vs)} = 1..Len(vs)

\* the generation of call c ended in failure: generateProposal threw, or the
\* refine request that called it answered with an error
EndedInFailure(c) ==
  \/ call[c].pc = "failed"
  \/ \E r \in DOMAIN req :
       req[r].call = c /\ req[r].pc = "responded" /\ req[r].status # 200

\* C13: a generation that ended in failure has left no file at its final
\* output path (looked at where no other call ran, so that a file there is
\* this call's).
C13_NoOutputOnFailure ==
  \A c \in DOMAIN call :
    (EndedInFailure(c) /\ Len(call) = 1) => ~existsSync(fs, call[c].finalOutputPath)

(***************************************************************************)
(* ValidationUtils.sanitizeFilename.  Here a string is the sequence of its *)
(* characters, so that its length and its last four characters are those   *)
(* of the JavaScript string.                                               *)
(***************************************************************************)
MaxFilenameLength == 255
MaxHead == 2        \* characters put in front of a generated file name

DangerousChars == {"<", ">", ":", "\"", "/", "\\", "|", "?", "*"}
WhitespaceChars == {" ", "\t"}
PdfExt == <<".", "p", "d", "f">>

\* String.prototype.toLowerCase on the characters the inputs have
toLowerCase(s) ==
  [i \in 1..Len(s) |-> CASE s[i] = "P" -> "p" [] s[i] = "D" -> "d" [] s[i] = "F" -> "f"
                         [] OTHER -> s[i]]

endsWith(s, suffix) ==
  Len(s) >= Len(suffix) /\ SubSeq(s, Len(s) - Len(suffix) + 1, Len(s)) = suffix

\* replace(/[<>:"/\\|?*]/g, '')
removeDangerous(s) == SelectSeq(s, LAMBDA ch : ch \notin DangerousChars)

\* replace(/\s+/g, '_'): the first character of a run of whitespace becomes
\* '_', the others go
replaceWhitespace(s) ==
  LET marked == [i \in 1..Len(s) |->
                   IF s[i] \notin WhitespaceChars THEN s[i]
                   ELSE IF i > 1 /\ s[i - 1] \in WhitespaceChars THEN "" ELSE "_"]
  IN SelectSeq(marked, LAMBDA ch : ch # "")

\* String.prototype.trim
trim(s) ==
  LET kept == {i \in 1..Len(s) : s[i] \notin WhitespaceChars}
  IN IF kept = {} THEN << >>
     ELSE SubSeq(s, CHOOSE i \in kept : \A j \in kept : i <= j,
                    CHOOSE i \in kept : \A j \in kept : i >= j)

\* a sanitizeFilename that cuts a long name without putting the extension back
sanitizeFilenameCutOnly(filename) ==
  IF ~Truthy(filename) \/ TypeOf(filename) # "string" THEN Str(<<"o", "u", "t", "p", "u", "t">> \o PdfExt)
  ELSE LET cleaned == trim(replaceWhitespace(removeDangerous(filename.s)))
           withExt == IF endsWith(toLowerCase(cleaned), PdfExt) THEN cleaned
                                                                ELSE cleaned \o PdfExt
           limited == IF Len(withExt) > MaxFilenameLength
                        THEN SubSeq(withExt, 1, MaxFilenameLength)
                        ELSE withExt
       IN Str(limited)

sanitizeFilename(filename) ==
  IF ~Truthy(filename) \/ TypeOf(filename) # "string" THEN Str(<<"o", "u", "t", "p", "u", "t">> \o PdfExt)
  ELSE LET cleaned == trim(replaceWhitespace(removeDangerous(filename.s)))
           withExt == IF endsWith(toLowerCase(cleaned), PdfExt) THEN cleaned
                                                                ELSE cleaned \o PdfExt
           limited == IF Len(withExt) > MaxFilenameLength
                        THEN SubSeq(withExt, 1, MaxFilenameLength - Len(PdfExt)) \o PdfExt
                        ELSE withExt
       IN IF limited = << >> THEN Str(<<"o", "u", "t", "p", "u", "t">> \o PdfExt)
                             ELSE Str(limited)

\* file names: a few characters, a run of letters, an ending
HeadChars == {"a", "<", " ", "."}
FillLengths == {0, 1, MaxFilenameLength - 6, MaxFilenameLength - 5, MaxFilenameLength - 4,
                MaxFilenameLength - 3, MaxFilenameLength, MaxFilenameLength + 1}
Endings == {<< >>, PdfExt, <<".", "P", "D", "F">>, <<".", "p", "d">>, PdfExt \o <<" ">>,
            <<"/", "\t", " ">>}
SanitizeInputs ==
  {Str(head \o [i \in 1..n |-> "a"] \o ending) :
     head \in SeqsUpTo(HeadChars, MaxHead), n \in FillLengths, ending \in Endings}
    \cup {Undef, Null, Num(5), Bool(TRUE)}

InitSanitize ==
  /\ pure \in {[fn |-> "sanitizeFilename", in |-> x, out |-> Undef, again |-> Undef,
                step |-> 0] : x \in SanitizeInputs}
  /\ fs = NoFiles /\ db = NoRows /\ call = NoCalls /\ req = NoRequest

ApplySanitize ==
  /\ pure.step = 0
  /\ pure' = [pure EXCEPT !.out = sanitizeFilename(pure.in), !.step = 1]
  /\ UNCHANGED <<fs, db, call, req>>

ApplySanitizeAgain ==
  /\ pure.step = 1
  /\ pure' = [pure EXCEPT !.again = sanitizeFilename(pure.out), !.step = 2]
  /\ UNCHANGED <<fs, db, call, req>>

NextSanitize ==
  \/ ApplySanitize
  \/ ApplySanitizeAgain

SpecSanitize == InitSanitize /\ [][NextSanitize]_vars

\* C17 as stated: sanitizing a sanitized name changes nothing, and the result
\* ends in '.pdf', has at most 255 characters and holds no removed character
\* and no whitespace.
C17_SanitizeIdempotentEndsInPdf ==
  pure.step = 2 =>
    /\ pure.again = pure.out
    /\ endsWith(pure.out.s, PdfExt)
    /\ Len(pure.out.s) <= MaxFilenameLength
    /\ \A i \in 1..Len(pure.out.s) : pure.out.s[i] \notin DangerousChars \cup WhitespaceChars

\* C17 amended: the same, with the ending '.pdf' in any letter case: a name
\* of at most 255 characters that ends in '.PDF' is returned with that ending.
C17_SanitizeIdempotentAnyCasePdf ==
  pure.step = 2 =>
    /\ pure.again = pure.out
    /\ endsWith(toLowerCase(pure.out.s), PdfExt)
    /\ (pure.in.t = "string" /\ endsWith(pure.in.s, <<".", "P", "D", "F">>)
           /\ Len(pure.in.s) <= MaxFilenameLength
          => endsWith(pure.out.s, <<".", "P", "D", "F">>))
    /\ Len(pure.out.s) <= MaxFilenameLength
    /\ \A i \in 1..Len(pure.out.s) : pure.out.s[i] \notin DangerousChars \cup WhitespaceChars

\* a name of more than 255 characters with a removed character and
\* whitespace in it was sanitized twice and cut to 255 characters
C17_Witness ==
  /\ pure.step = 2
  /\ pure.in.t = "string"
  /\ Len(pure.in.s) > MaxFilenameLength
  /\ \E i \in 1..Len(pure.in.s) : pure.in.s[i] \in DangerousChars
  /\ \E i \in 1..Len(pure.in.s) : pure.in.s[i] \in WhitespaceChars
  /\ Len(pure.out.s) = MaxFilenameLength
  /\ pure.again = pure.out

(***************************************************************************)
(* ProposalGeneratorService.validateTemplates and                          *)
(* FileUtils.validateTemplatesExist.                                       *)
(***************************************************************************)
\* the names for which fs.existsSync(path.join(templatesDir, name)) is false
validateTemplatesExist(files, templatesDir, requiredTemplates) ==
  SelectSeq(requiredTemplates, LAMBDA name : ~existsSync(files, pathJoin(templatesDir, name)))

\* ['Template Company.pdf', ...config.Templates.map(t => t.fileName)]
requiredTemplates(config) ==
  <<<<"Template Company", ".pdf">>>>
    \o [i \in 1..Len(Get(config, "Templates").a) |-> Get(Get(config, "Templates").a[i], "fileName").s]

\* config.Templates.map throws unless Templates is an array, and path.join
\* throws on a name that is not a string
validateTemplatesThrows(config) ==
  IF ~IsArray(Get(config, "Templates")) THEN TRUE
  ELSE \E i \in 1..Len(Get(config, "Templates").a) :
         TypeOf(Get(Get(config, "Templates").a[i], "fileName")) # "string"

validateTemplates(files, config) ==
  LET required == requiredTemplates(config)
      missingTemplates == validateTemplatesExist(files, TemplatesDir, required)
  IN [valid |-> Len(missingTemplates) = 0,
      missingTemplates |-> missingTemplates,
      totalTemplates |-> Len(required),
      availableTemplates |-> Len(required) - Len(missingTemplates)]

Unnamed == Template(Str(<<"Intro">>), Undef, Bool(FALSE), Undef, Undef, Undef, Undef, Undef)

TemplatesConfigs ==
  GenConfigs
    \cup {Config(Str(<<"Acme">>), Arr(ts)) : ts \in {<<StaffTwo>>, <<PlainA, StaffTwo>>, <<PlainTemp>>}}
    \cup {Config(Str(<<"Acme">>), Arr(<<PlainA, Unnamed>>)), Config(Str(<<"Acme">>), Undef)}

InitTemplates ==
  /\ pure \in {[fn |-> "validateTemplates", in |-> config, out |-> Undef, done |-> FALSE] :
                 config \in TemplatesConfigs}
  /\ fs \in InitialFileSystems(pure.in)
  /\ db \in {NoRows, GeneratedRows}
  /\ call = NoCalls /\ req = NoRequest

ValidateTemplatesReturns ==
  /\ ~pure.done
  /\ ~validateTemplatesThrows(pure.in)
  /\ pure' = [pure EXCEPT !.out = validateTemplates(fs, pure.in), !.done = TRUE]
  /\ UNCHANGED <<fs, db, call, req>>

ValidateTemplatesThrows ==
  /\ ~pure.done
  /\ validateTemplatesThrows(pure.in)
  /\ pure' = [pure EXCEPT !.out = [threw |-> TRUE], !.done = TRUE]
  /\ UNCHANGED <<fs, db, call, req>>

NextTemplates ==
  \/ ValidateTemplatesReturns
  \/ ValidateTemplatesThrows

SpecTemplates == InitTemplates /\ [][NextTemplates]_vars

\* the file names a configuration refers to: the front page template, the
\* file of every template and the file of every staff member
ReferencedNames(config) ==
  LET ts == Get(config, "Templates").a
  IN {<<"Template Company", ".pdf">>}
       \cup {Get(ts[i], "fileName").s : i \in 1..Len(ts)}
       \cup UNION {{basename(path) : path \in StaffPaths(ts[i])} : i \in 1..Len(ts)}

Returned == pure.done /\ ~validateTemplatesThrows(pure.in)

\* C18: validateTemplates reports as missing exactly the files, among
\* 'Template Company.pdf' and every template-level and staff-level fileName of
\* the config, that are not in the templates directory; valid iff none is
\* missing; availableTemplates = totalTemplates - number missing; no file and
\* no database row is written.
C18_MissingAreTheAbsentReferenced ==
  /\ [](Returned =>
          /\ {pure.out.missingTemplates[i] : i \in 1..Len(pure.out.missingTemplates)}
               = {name \in ReferencedNames(pure.in) : ~existsSync(fs, pathJoin(TemplatesDir, name))}
          /\ pure.out.valid = (pure.out.missingTemplates = << >>)
          /\ pure.out.availableTemplates
               = pure.out.totalTemplates - Len(pure.out.missingTemplates))
  /\ [][fs' = fs /\ db' = db]_vars

(***************************************************************************)
(* Two generateProposal calls at once: the temporaries they share.         *)
(***************************************************************************)
\* the temporary paths a run on config can use; the call does not enter
TempNames(config) ==
  {pathJoin(OutputDir, <<"temp_", "frontpage", ".pdf">>),
   pathJoin(OutputDir, <<"temp_", "toc", ".pdf">>)}
    \cup {pathJoin(OutputDir, <<"temp_">> \o Get(Get(config, "Templates").a[i], "fileName").s) :
            i \in 1..Len(Get(config, "Templates").a)}

\* C19: the temporaries have fixed names shared by all invocations: every
\* path under the output directory that a call hands to its merge is the
\* front page name, the table of contents name or temp_<fileName> of one of
\* its templates, whichever call it is.  The clobbering this allows is the
\* state C19_Witness.
C19_TempNamesShared ==
  \A c \in DOMAIN call :
    \A j \in 1..Len(PdfPaths(c)) :
      (PdfPaths(c)[j] # << >> /\ PdfPaths(c)[j][1] = OutputDir[1])
        => PdfPaths(c)[j] \in TempNames(call[c].config)

\* call c has merged, call d has not yet, and the document c wrote holds a
\* page that d filled: c's merge read a temporary written by d
C19_Witness ==
  \E c \in DOMAIN call, d \in DOMAIN call :
    /\ c # d
    /\ call[c].pc \in {"dbupdate", "cleanup"}
    /\ call[d].pc \in {"templates", "toc", "merge"}
    /\ call[c].finalOutputPath # call[d].finalOutputPath
    /\ existsSync(fs, call[c].finalOutputPath)
    /\ \E n \in 1..Len(fs[call[c].finalOutputPath].pages) :
         fs[call[c].finalOutputPath].pages[n].fill.by = d

(***************************************************************************)
(* Sections that are skipped.                                              *)
(***************************************************************************)
\* the section at position sec of call c is a plain template whose file is
\* not in the templates directory
PlainMissing(c, sec) ==
  /\ Branch(Templates(c)[sec]) = "plain"
  /\ ~existsSync(fs, pathJoin(TemplatesDir, Get(Templates(c)[sec], "fileName").s))

\* C21: a plain template whose file is missing adds no path and no table of
\* contents entry and leaves pageCounter unchanged, and the run goes on; when
\* it is the only template the merged document has exactly 2 pages, the table
\* of contents drawn is empty and no page carries a 'Page N of M' label.
C21_MissingPlainSkipped ==
  /\ [][\A c \in DOMAIN call :
          (call[c].pc = "templates" /\ PlainMissing(c, call[c].idx)) =>
            /\ call'[c].processedTemplates = call[c].processedTemplates
            /\ call'[c].tocData = call[c].tocData
            /\ call'[c].pageCounter = call[c].pageCounter
            /\ call'[c].pc \in {"templates", "toc"}]_vars
  /\ [](\A c \in DOMAIN call :
          (Merged(c) /\ Len(Templates(c)) = 1 /\ Branch(Templates(c)[1]) = "plain"
             /\ call[c].processedTemplates = << >>) =>
            /\ Len(Document(c)) = 2
            /\ \A n \in 1..Len(Document(c)) :
                 Document(c)[n].labels = << >> /\ Document(c)[n].toc = << >>)

\* an exception is raised while the section is processed: path.join on a
\* staff file name that is no string, or a template that exists and cannot
\* be loaded where the section loads it itself
OwnLoadFails(files, template) ==
  LET templatePath == pathJoin(TemplatesDir, Get(template, "fileName").s)
  IN /\ existsSync(files, templatePath)
     /\ ~Loads(files, templatePath)
     /\ \/ Branch(template) = "editable"
        \/ /\ Branch(template) \in {"members", "memberFieldValues"}
           /\ MemberImageMapping(files,
                 IF Branch(template) = "members" THEN Get(template, "members").a
                                                 ELSE Get(template, "fieldValues").a) # << >>

SectionException(files, template) == Raises(files, template) \/ OwnLoadFails(files, template)

\* C22: an exception raised while one section is processed does not stop
\* processTemplates; the section adds no path and no table of contents entry
\* and does not advance pageCounter, so that the later sections are processed
\* as if it were not in the config.
C22_FailingSectionIsolated ==
  [][\A c \in DOMAIN call :
       (call[c].pc = "templates" /\ SectionException(fs, Templates(c)[call[c].idx])) =>
         /\ call'[c].pc \in {"templates", "toc"}
         /\ call'[c].idx = call[c].idx + 1
         /\ call'[c].processedTemplates = call[c].processedTemplates
         /\ call'[c].tocData = call[c].tocData
         /\ call'[c].pageCounter = call[c].pageCounter]_vars

(***************************************************************************)
(* POST /generate-from-file and generateFromConfigFile, which the CLI's    *)
(* generate command calls with its --config and --output options as well.  *)
(* A configuration file is [k |-> "json", v |-> the value it parses to].   *)
(***************************************************************************)
JsonFile(v) == [k |-> "json", v |-> v]
DefaultConfigPath == <<"data", ".json">>

\* FileUtils.loadConfig: [threw, config]
loadConfig(files, configPath) ==
  IF ~existsSync(files, configPath) THEN [threw |-> TRUE, config |-> Undef]
  ELSE IF files[configPath].k # "json" THEN [threw |-> TRUE, config |-> Undef]
  ELSE LET config == files[configPath].v
       IN IF config.t \in {"undefined", "null"} THEN [threw |-> TRUE, config |-> Undef]
          ELSE IF ~Truthy(Get(config, "Company")) THEN [threw |-> TRUE, config |-> Undef]
          ELSE IF ~Truthy(Get(config, "Templates")) \/ ~IsArray(Get(config, "Templates"))
            THEN [threw |-> TRUE, config |-> Undef]
          ELSE [threw |-> FALSE, config |-> config]

FromFileRequest(body) == [pc |-> "received", body |-> body, status |-> 0]

\* the handler up to the call of generateProposal: no check of outputFileName
FromFileGenerate ==
  /\ req.pc = "received"
  /\ LET configFilePath == Get(req.body, "configFilePath")
         outputFileName == Get(req.body, "outputFileName")
         configPath == IF ~Truthy(configFilePath) THEN DefaultConfigPath
                       ELSE IF configFilePath.t = "string" THEN configFilePath.s
                       ELSE <<"not a path">>
         loaded == loadConfig(fs, configPath)
     IN IF loaded.threw
          THEN /\ req' = [req EXCEPT !.pc = "responded", !.status = 500]
               /\ call' = call
          ELSE /\ req' = [req EXCEPT !.pc = "generating"]
               /\ call' = <<InitCall(loaded.config,
                                     IF outputFileName.t = "undefined" THEN Null
                                                                       ELSE outputFileName)>>
  /\ UNCHANGED <<fs, db, pure>>

FromFileRespond ==
  /\ req.pc = "generating"
  /\ call[1].pc \in {"done", "failed"}
  /\ req' = [req EXCEPT !.pc = "responded",
                        !.status = IF call[1].pc = "done" THEN 200 ELSE 500]
  /\ UNCHANGED <<fs, db, call, pure>>

FromFileOutputNames ==
  {Undef, Str(<<"out", ".pdf">>), Str(<<"..", "/", "out", ".pdf">>),
   Str(<<"reports", "/", "out", ".pdf">>), Str(<<"My", " ", "Proposal", ".pdf">>), Num(5)}

FromFileBodies ==
  {MkObj(<<KV("configFilePath", path), KV("outputFileName", name)>>) :
     path \in {Undef, Str(<<"custom", ".json">>), Str(<<"missing", ".json">>), Num(5)},
     name \in FromFileOutputNames}

FromFileConfigs ==
  {ConfigAcme, ConfigNoCompany, Null, Obj(<<KV("Company", Str(<<"Acme">>))>>),
   Config(Str(<<"Acme">>), Arr(<<EditableA, PlainB>>))}

InitFromFile ==
  /\ req \in {FromFileRequest(body) : body \in FromFileBodies}
  /\ fs \in {RouteFiles @@ (DefaultConfigPath :> JsonFile(ConfigAcme)) @@ custom :
               custom \in {<<"custom", ".json">> :> content :
                             content \in {BadFile} \cup {JsonFile(v) : v \in FromFileConfigs}}}
  /\ db = NoRows
  /\ call = NoCalls
  /\ pure = NoPure

NextFromFile ==
  \/ FromFileGenerate
  \/ FromFileRespond
  \/ \E c \in DOMAIN call : Validate(c)
  \/ \E c \in DOMAIN call : DetermineOutput(c)
  \/ \E c \in DOMAIN call : GenerateFrontPage(c)
  \/ \E c \in DOMAIN call : ProcessTemplate(c)
  \/ \E c \in DOMAIN call : GenerateTableOfContents(c)
  \/ \E c \in DOMAIN call : Merge(c)
  \/ \E c \in DOMAIN call : UpdateDocumentPath(c)
  \/ \E c \in DOMAIN call : Cleanup(c)
  \/ \E c \in DOMAIN call : ReturnSummary(c)

SpecFromFile == InitFromFile /\ [][NextFromFile]_vars

\* C23: on every entry route an output file name given by the caller reaches
\* path.join(outputDir, outputFileName) only after the file name pattern or
\* sanitizeFilename accepted it, so that the final output path is a file
\* directly inside the output directory.
C23_OutputPathInsideOutputDir ==
  \A c \in DOMAIN call :
    (Truthy(call[c].outputFileName) /\ call[c].finalOutputPath # << >>) =>
      dirname(call[c].finalOutputPath) = OutputDir

(***************************************************************************)
(* ImageProcessorService.processTemplateWithImages, step by step.  The     *)
(* document in memory is pure.pages, one record per page: queue is the     *)
(* page's _imagesToDraw ("none" while the property is not there) and drawn *)
(* the images drawn on the page.  pure.events is history: what was queued, *)
(* flattened and drawn, in the order it happened.                          *)
(***************************************************************************)
MaxMappings == 3    \* entries of an imageMapping

ImageTemplatePath == pathJoin(TemplatesDir, Pdf("M"))
ImageOutputPath == pathJoin(OutputDir, <<"temp_">> \o Pdf("M"))

\* the form fields of the template: the page of the first widget (0 when the
\* widget gives no page reference), and whether form.getTextField finds it
FormFields ==
  [F1 |-> [kind |-> "text", widgets |-> 1, page |-> 1],
   F2 |-> [kind |-> "button", widgets |-> 1, page |-> 0],
   F3 |-> [kind |-> "text", widgets |-> 1, page |-> 2],
   F4 |-> [kind |-> "text", widgets |-> 0, page |-> 0]]
MappedFieldNames == {"F1", "F2", "F3", "F4", "F5"}

ImagesDir == pathJoin(TemplatesDir, <<"Member Association">>)
GoodJpg == pathJoin(ImagesDir, <<"a", ".jpg">>)
GoodPng == pathJoin(ImagesDir, <<"b", ".png">>)
GifImage == pathJoin(ImagesDir, <<"c", ".gif">>)
CorruptJpg == pathJoin(ImagesDir, <<"d", ".jpg">>)
MissingJpg == pathJoin(ImagesDir, <<"e", ".jpg">>)
ImageValues == {Str(GoodJpg), Str(GoodPng), Str(GifImage), Str(CorruptJpg), Str(MissingJpg), Null}

ImageFiles ==
  (GoodJpg :> ImgFile) @@ (GoodPng :> ImgFile) @@ (GifImage :> ImgFile)
    @@ (CorruptJpg :> BadFile)

\* the imageMappings: up to MaxMappings entries with distinct field names
ImageMappings ==
  {m \in SeqsUpTo([k : MappedFieldNames, v : ImageValues], MaxMappings) :
     \A i \in 1..Len(m), j \in 1..Len(m) : i # j => m[i].k # m[j].k}

\* path.extname(imagePath).toLowerCase()
extname(p) == IF p = << >> THEN "" ELSE p[Len(p)]

\* embedJpg or embedPng accepts the image
Embeds(files, imagePath) ==
  /\ extname(imagePath) \in {".jpg", ".jpeg", ".png"}
  /\ files[imagePath].k = "img"

\* insertImageIntoField throws before it queues anything: the field is not in
\* the form, has no widget, the document has no page, or the image cannot be
\* embedded
insertThrows(files, pages, fieldName, imagePath) ==
  \/ fieldName \notin DOMAIN FormFields
  \/ FormFields[fieldName].widgets = 0
  \/ pages = << >>
  \/ ~Embeds(files, imagePath)

\* the page the image is queued on: the page of the widget, the first page
\* when the page cannot be determined
targetPage(pages, fieldName) ==
  IF FormFields[fieldName].page \in 1..Len(pages) THEN FormFields[fieldName].page ELSE 1

Queued(fieldName, imagePath) == [fieldName |-> fieldName, image |-> imagePath]

\* an insertImageIntoField that draws the image at once
insertImageIntoFieldDrawsAtOnce(state, fieldName, imagePath) ==
  LET t == targetPage(state.pages, fieldName)
      info == Queued(fieldName, imagePath)
  IN [state EXCEPT
        !.pages[t].drawn = Append(@, info),
        !.events = Append(@, [e |-> "draw", page |-> t, info |-> info])]

\* insertImageIntoField when it does not throw: the image is queued on its
\* target page
insertImageIntoField(state, fieldName, imagePath) ==
  LET t == targetPage(state.pages, fieldName)
      info == Queued(fieldName, imagePath)
  IN [state EXCEPT
        !.pages[t].queue = IF @ = "none" THEN <<info>> ELSE Append(@, info),
        !.events = Append(@, [e |-> "queue", page |-> t, info |-> info])]

InitImages ==
  /\ pure \in {[fn |-> "processTemplateWithImages", pc |-> "load", imageMapping |-> m,
                i |-> 1, p |-> 1, pages |-> << >>, flattened |-> 0, events |-> << >>,
                result |-> "none"] : m \in ImageMappings}
  /\ fs \in {ImageFiles @@ (ImageTemplatePath :> content) :
               content \in {TemplateFile(ImageTemplatePath, 2), BadFile}}
  /\ db = NoRows /\ call = NoCalls /\ req = NoRequest

\* PDFDocument.load of the template; the error is rethrown
ImagesLoad ==
  /\ pure.pc = "load"
  /\ pure' = IF Loads(fs, ImageTemplatePath)
               THEN [pure EXCEPT !.pc = IF Len(pure.imageMapping) = 0 THEN "flatten" ELSE "map",
                       !.pages = [n \in 1..Len(fs[ImageTemplatePath].pages) |->
                                    [queue |-> "none", drawn |-> << >>]]]
               ELSE [pure EXCEPT !.pc = "done", !.result = "threw"]
  /\ UNCHANGED <<fs, db, call, req>>

\* one iteration of the loop over Object.entries(imageMapping)
ImagesMap ==
  /\ pure.pc = "map"
  /\ LET entry == pure.imageMapping[pure.i]
         next == [pure EXCEPT !.i = @ + 1,
                              !.pc = IF pure.i = Len(pure.imageMapping) THEN "flatten" ELSE "map"]
     IN pure' = IF ~(Truthy(entry.v) /\ existsSync(fs, entry.v.s)) THEN next
                ELSE IF insertThrows(fs, pure.pages, entry.k, entry.v.s) THEN next
                ELSE insertImageIntoField(next, entry.k, entry.v.s)
  /\ UNCHANGED <<fs, db, call, req>>

\* form.flatten()
ImagesFlatten ==
  /\ pure.pc = "flatten"
  /\ pure' = [pure EXCEPT !.pc = "draw", !.flattened = @ + 1,
                          !.events = Append(@, [e |-> "flatten", page |-> 0,
                                                info |-> Queued("", << >>)])]
  /\ UNCHANGED <<fs, db, call, req>>

\* one iteration of the loop over the pages: the page's queue is drawn in
\* order and the property deleted
ImagesDraw ==
  /\ pure.pc = "draw"
  /\ pure.p <= Len(pure.pages)
  /\ LET page == pure.pages[pure.p]
         queue == IF page.queue = "none" THEN << >> ELSE page.queue
     IN pure' = [pure EXCEPT
          !.p = @ + 1,
          !.pages[pure.p] = [queue |-> "none", drawn |-> page.drawn \o queue],
          !.events = @ \o [k \in 1..Len(queue) |->
                             [e |-> "draw", page |-> pure.p, info |-> queue[k]]]]
  /\ UNCHANGED <<fs, db, call, req>>

\* pdfDoc.save() and fs.writeFileSync(outputPath)
ImagesSave ==
  /\ pure.pc = "draw"
  /\ pure.p > Len(pure.pages)
  /\ pure' = [pure EXCEPT !.pc = "done", !.result = "saved"]
  /\ fs' = writeFileSync(fs, ImageOutputPath,
             PdfFile([n \in 1..Len(pure.pages) |->
                        [fs[ImageTemplatePath].pages[n] EXCEPT
                           !.fill = Fill("images", 0, 0,
                                         [k \in 1..Len(pure.pages[n].drawn) |->
                                            pure.pages[n].drawn[k].fieldName])]]))
  /\ UNCHANGED <<db, call, req>>

NextImages ==
  \/ ImagesLoad
  \/ ImagesMap
  \/ ImagesFlatten
  \/ ImagesDraw
  \/ ImagesSave

SpecImages == InitImages /\ [][NextImages]_vars

\* the entries of the mapping, among the first n, that can be resolved: the
\* image exists and can be embedded and the field is in the form
Resolved(n) ==
  SelectSeq(SubSeq(pure.imageMapping, 1, n),
            LAMBDA entry : /\ Truthy(entry.v) /\ existsSync(ImageFiles, entry.v.s)
                           /\ ~insertThrows(ImageFiles, pure.pages, entry.k, entry.v.s))

EventsOf(kind) == SelectSeq(pure.events, LAMBDA ev : ev.e = kind)
EventsOn(kind, n) == SelectSeq(pure.events, LAMBDA ev : ev.e = kind /\ ev.page = n)

\* C24: no image is drawn before the form is flattened; every resolvable
\* mapping, and no other, queues one draw on its target page; the form is
\* flattened once, after all mappings; then every queued image is drawn
\* exactly once, page by page in queue order, and no page keeps a queue.
C24_ImagesDrawnAfterFlatten ==
  pure.pc \in {"map", "flatten", "draw", "done"} /\ pure.result # "threw" =>
    /\ pure.flattened <= 1
    /\ \A a \in 1..Len(pure.events), b \in 1..Len(pure.events) :
         /\ (pure.events[a].e = "queue" /\ pure.events[b].e = "flatten") => a < b
         /\ (pure.events[a].e = "flatten" /\ pure.events[b].e = "draw") => a < b
    /\ LET queued == EventsOf("queue")
           resolved == Resolved(pure.i - 1)
       IN /\ Len(queued) = Len(resolved)
          /\ \A k \in 1..Len(queued) :
               /\ queued[k].info = Queued(resolved[k].k, resolved[k].v.s)
               /\ queued[k].page = targetPage(pure.pages, resolved[k].k)
    /\ pure.pc \in {"flatten", "draw", "done"} => pure.i = Len(pure.imageMapping) + 1
    /\ pure.pc = "done" =>
         /\ pure.flattened = 1
         /\ \A n \in 1..Len(pure.pages) :
              /\ pure.pages[n].queue = "none"
              /\ [k \in 1..Len(pure.pages[n].drawn) |-> pure.pages[n].drawn[k]]
                   = [k \in 1..Len(EventsOn("queue", n)) |-> EventsOn("queue", n)[k].info]
              /\ [k \in 1..Len(EventsOn("draw", n)) |-> EventsOn("draw", n)[k].info]
                   = [k \in 1..Len(EventsOn("queue", n)) |-> EventsOn("queue", n)[k].info]

\* the document was saved after two images were queued on one page and
\* drawn there, with a mapping that could not be resolved between them
C24_Witness ==
  /\ pure.pc = "done" /\ pure.result = "saved"
  /\ \E n \in 1..Len(pure.pages) : Len(pure.pages[n].drawn) = 2
  /\ Len(pure.imageMapping) > Len(EventsOf("queue"))
  /\ Loads(fs, ImageOutputPath)

(***************************************************************************)
(* generateTOCProgrammatically on long lists, one loop iteration a step.   *)
(***************************************************************************)
MaxTocEntries == 70

InitToc ==
  /\ pure \in {[fn |-> "generateTOCProgrammatically",
                tocData |-> [k \in 1..n |-> TocEntry(<<"Section", k>>, k)],
                st |-> TocStart, done |-> FALSE] : n \in 0..MaxTocEntries}
  /\ fs = NoFiles /\ db = NoRows /\ call = NoCalls /\ req = NoRequest

TocIterate ==
  /\ ~pure.done
  /\ ~TocEnded(pure.st, pure.tocData)
  /\ pure' = [pure EXCEPT !.st = TocStep(pure.st, pure.tocData)]
  /\ UNCHANGED <<fs, db, call, req>>

TocSave ==
  /\ ~pure.done
  /\ TocEnded(pure.st, pure.tocData)
  /\ pure' = [pure EXCEPT !.done = TRUE]
  /\ fs' = generateTOCProgrammatically(fs, pathJoin(OutputDir, <<"temp_", "toc", ".pdf">>),
                                       pure.tocData, 0)
  /\ UNCHANGED <<db, call, req>>

NextToc ==
  \/ TocIterate
  \/ TocSave

SpecToc == InitToc /\ [][NextToc]_vars

\* C25: the entries drawn are a prefix of the list, placed alternately in
\* the left and the right column in list order, each 16 units below the
\* previous entry of its column and none below the floor; once the column in
\* turn was found below the floor no later entry is drawn; a list of at most
\* 68 entries is drawn completely.
C25_TocDrawsPrefix ==
  /\ [](LET drawn == pure.st.drawn
        IN /\ Len(drawn) <= Len(pure.tocData)
           /\ \A k \in 1..Len(drawn) :
                /\ drawn[k].entry = pure.tocData[k]
                /\ drawn[k].column = IF k % 2 = 1 THEN "left" ELSE "right"
                /\ drawn[k].y = ContentStartY - LineStep * ((k - 1) \div 2)
                /\ drawn[k].y >= ColumnFloor
           /\ pure.done =>
                /\ Len(pure.tocData) <= 68 => Len(drawn) = Len(pure.tocData)
                /\ fs[pathJoin(OutputDir, <<"temp_", "toc", ".pdf">>)].pages[1].toc
                     = [k \in 1..Len(drawn) |-> drawn[k].entry])
  /\ [][pure.st.below => pure'.st.drawn = pure.st.drawn]_vars

\* a list of 70 entries was written with its first 68 entries drawn, the
\* last of them on the lowest line of the right column
C25_Witness ==
  /\ pure.done
  /\ Len(pure.tocData) = 70
  /\ Len(pure.st.drawn) = 68
  /\ pure.st.drawn[68].column = "right"
  /\ pure.st.drawn[68].y = 11389

(***************************************************************************)
(* A Member Association section with a members list, as processTemplates   *)
(* handles it.                                                             *)
(***************************************************************************)
MaxMembers == 8

MemberNames == {<<"Alice">>, <<"Bob">>}
MembersPath == pathJoin(TemplatesDir, Pdf("M"))
MemberImagePaths ==
  {pathJoin(ImagesDir, <<"Alice", ".jpg">>), pathJoin(ImagesDir, <<"Alice", ".png">>),
   pathJoin(ImagesDir, <<"Bob", ".jpeg">>), pathJoin(ImagesDir, <<"Bob", ".png">>)}

MembersTemplate(members) ==
  Template(Str(<<"Member Association">>), Str(Pdf("M")), Bool(FALSE), Undef, Undef, Undef,
           Arr(members), Undef)

InitMembers ==
  /\ pure \in {[fn |-> "processTemplates", template |-> MembersTemplate(members),
                pageCounter |-> 1, out |-> Undef, done |-> FALSE] :
                 members \in {[i \in DOMAIN names |-> Str(names[i])] :
                                names \in SeqsUpTo(MemberNames, MaxMembers)}}
  /\ fs \in {[path \in images |-> ImgFile] @@ template :
               images \in SUBSET MemberImagePaths,
               template \in {<< >>, MembersPath :> TemplateFile(MembersPath, MaxPages)}}
  /\ db = NoRows /\ call = NoCalls /\ req = NoRequest

\* the iteration of processTemplates on the section
MembersProcess ==
  /\ ~pure.done
  /\ LET r == processSection(fs, pure.template, pure.pageCounter, 0, 1)
     IN /\ pure' = [pure EXCEPT !.done = TRUE,
                                !.out = [paths |-> r.paths, toc |-> r.toc,
                                         pageCounter |-> pure.pageCounter + r.advance]]
        /\ fs' = r.files
  /\ UNCHANGED <<db, call, req>>

NextMembers ==
  \/ MembersProcess

SpecMembers == InitMembers /\ [][NextMembers]_vars

\* the image of a member: <name>.jpg, else <name>.jpeg, else <name>.png,
\* << >> when there is none
ImageOf(name) ==
  IF existsSync(fs, pathJoin(ImagesDir, name \o <<".jpg">>))
    THEN pathJoin(ImagesDir, name \o <<".jpg">>)
  ELSE IF existsSync(fs, pathJoin(ImagesDir, name \o <<".jpeg">>))
    THEN pathJoin(ImagesDir, name \o <<".jpeg">>)
  ELSE IF existsSync(fs, pathJoin(ImagesDir, name \o <<".png">>))
    THEN pathJoin(ImagesDir, name \o <<".png">>)
  ELSE << >>

\* the positions, among the first 7, of the members that have an image
WithImage(members) ==
  {i \in 1..Len(members) : i <= 7 /\ ImageOf(members[i].s) # << >>}

\* C26: of a members list at most the first 7 are considered; the member at
\* position i is mapped to 'Image{i}_af_image' iff <name>.jpg, .jpeg or .png
\* exists, to the first of them that does, and a member without image leaves
\* the numbers of the later ones alone; when no member has an image the
\* original template path is returned and the section still gets its table
\* of contents entry and advances pageCounter; when the template file is
\* missing the section is skipped.
C26_MembersMappedByPosition ==
  pure.done =>
    LET members == Get(pure.template, "members").a
        mapping == MemberImageMapping(fs, members)
        entry == <<TocEntry(<<"Member Association">>, pure.pageCounter)>>
    IN /\ {mapping[k].k : k \in 1..Len(mapping)}
            = {"Image" \o ToString(i) \o "_af_image" : i \in WithImage(members)}
       /\ \A k \in 1..Len(mapping) : \E i \in WithImage(members) :
            /\ mapping[k].k = "Image" \o ToString(i) \o "_af_image"
            /\ mapping[k].v = Str(ImageOf(members[i].s))
       /\ \A k \in 1..Len(mapping) - 1 : \E i \in WithImage(members), j \in WithImage(members) :
            /\ i < j
            /\ mapping[k].k = "Image" \o ToString(i) \o "_af_image"
            /\ mapping[k + 1].k = "Image" \o ToString(j) \o "_af_image"
       /\ IF ~existsSync(fs, MembersPath)
            THEN pure.out = [paths |-> << >>, toc |-> << >>, pageCounter |-> pure.pageCounter]
          ELSE IF WithImage(members) = {}
            THEN pure.out = [paths |-> <<MembersPath>>, toc |-> entry,
                             pageCounter |-> pure.pageCounter + MaxPages]
          ELSE /\ pure.out = [paths |-> <<pathJoin(OutputDir, <<"temp_">> \o Pdf("M"))>>,
                              toc |-> entry, pageCounter |-> pure.pageCounter + MaxPages]
               /\ LET written == fs[pathJoin(OutputDir, <<"temp_">> \o Pdf("M"))].pages
                  IN \A n \in 1..Len(written) :
                       written[n].fill.imgs = [k \in 1..Len(mapping) |-> mapping[k].k]

\* eight members, the first and the eighth without image and the third with
\* a .jpeg one: the fields mapped start at Image2 and none is mapped for the
\* eighth
C26_Witness ==
  /\ pure.done
  /\ Len(Get(pure.template, "members").a) = 8
  /\ 1 \notin WithImage(Get(pure.template, "members").a)
  /\ 2 \in WithImage(Get(pure.template, "members").a)
  /\ ImageOf(Get(pure.template, "members").a[8].s) # << >>
  /\ \E i \in 1..7 : ImageOf(Get(pure.template, "members").a[i].s)
                       = pathJoin(ImagesDir, <<"Bob", ".jpeg">>)
  /\ Len(pure.out.paths) = 1 /\ pure.out.paths[1] # MembersPath

\* the pages of the document written at path that input j contributed
PagesOfInput(files, path, j) ==
  LET own == SelectSeq(files[path].pages, LAMBDA page : page.inp = j)
  IN [n \in 1..Len(own) |-> Source(own[n])]

\* C27: an input of the merge that is missing or cannot be parsed is left
\* out, and only it: the merge writes its output, the pages of every other
\* input are there in input order, and the total of the 'Page N of M' labels
\* counts the pages added only.
C27_UnreadableInputOmitted ==
  [][\A c \in DOMAIN call :
       (call[c].pc = "merge" /\ call'[c] # call[c]
          /\ ~WriteThrows(call[c].finalOutputPath)) =>
         /\ call'[c].pc = "dbupdate"
         /\ Loads(fs', call[c].finalOutputPath)
         /\ LET output == fs'[call[c].finalOutputPath].pages
            IN /\ \A j \in 1..Len(PdfPaths(c)) :
                    PagesOfInput(fs', call[c].finalOutputPath, j)
                      = IF Loads(fs, PdfPaths(c)[j])
                          THEN [n \in 1..Len(fs[PdfPaths(c)[j]].pages) |->
                                  Source(fs[PdfPaths(c)[j]].pages[n])]
                          ELSE << >>
               /\ \A n \in 1..Len(output) : output[n].inp \in 1..Len(PdfPaths(c))
               /\ \A n \in 1..Len(output) - 1 : output[n].inp <= output[n + 1].inp
               /\ \A n \in 1..Len(output) : \A k \in 1..Len(output[n].labels) :
                    output[n].labels[k].of = Len(output) - 2]_vars

\* a document was merged from inputs of which one, not the last, could not
\* be parsed, and a page of a later input carries a label
C27_Witness ==
  \E c \in DOMAIN call :
    /\ call[c].pc = "dbupdate"
    /\ Loads(fs, call[c].finalOutputPath)
    /\ \E j \in 1..Len(PdfPaths(c)) :
         /\ existsSync(fs, PdfPaths(c)[j]) /\ ~Loads(fs, PdfPaths(c)[j])
         /\ \A k \in 1..Len(PdfPaths(c)) : k # j => Loads(fs, PdfPaths(c)[k])
         /\ \E n \in 1..Len(Document(c)) :
              Document(c)[n].inp > j /\ Document(c)[n].labels # << >>

\* C28: after generateProposal returned its summary a file is at
\* result.outputPath: the cleanup does not delete the final output, whatever
\* output file name the file name pattern accepts.
C28_OutputExistsAfterSuccess ==
  \A c \in DOMAIN call :
    (call[c].pc = "done" /\ call[c].result.success) =>
      existsSync(fs, call[c].result.outputPath)

\* C29: within one generateProposal call the pages an editable section
\* contributes to the merged document are the ones filled for that section,
\* also when two editable sections name the same file: the temp file of one
\* section is not overwritten by another before the merge reads it.
C29_EditablePagesAreOwnSection ==
  \A c \in DOMAIN call :
    Merged(c) =>
      \A n \in 1..Len(Document(c)) :
        (Document(c)[n].inp >= 3 /\ Document(c)[n].fill.kind \in {"text", "images"}) =>
          Document(c)[n].fill.sec = SectionOf(c, Document(c)[n])

(***************************************************************************)
(* Two generateProposal calls without an output file name, their steps     *)
(* interleaved as the awaits of generateProposal allow.                    *)
(***************************************************************************)
TwoCallConfigs ==
  {Config(Str(company), Arr(<<PlainA>>)) :
     company \in {<<"Acme">>, <<"Acme", ".">>, <<"Bolt">>}}

InitTwoCalls ==
  /\ call \in {<<InitCall(c1, Undef), InitCall(c2, Undef)>> :
                 c1 \in TwoCallConfigs, c2 \in TwoCallConfigs}
  /\ fs = RouteFiles
  /\ db = NoRows
  /\ req = NoRequest
  /\ pure = NoPure

SpecTwoCalls == InitTwoCalls /\ [][Next]_vars

\* call c returned a success summary and was given no output file name
SucceededUnnamed(c) ==
  call[c].pc = "done" /\ call[c].result.success /\ ~Truthy(call[c].outputFileName)

\* C30: two distinct successful generateProposal calls without an output
\* file name never write the same final output path, also when they are for
\* the same company name, or for company names equal after stripping, and
\* start within the same second.
C30_DistinctOutputPaths ==
  \A c1 \in DOMAIN call, c2 \in DOMAIN call :
    (c1 # c2 /\ SucceededUnnamed(c1) /\ SucceededUnnamed(c2)) =>
      call[c1].finalOutputPath # call[c2].finalOutputPath
====
